---------------------------- MODULE Spec2Model ----------------------------
(***************************************************************************)
(* Table Nova: tabular input -> RDF quads -> IndexedDB run store.          *)
(*                                                                         *)
(* A JavaScript string is modelled as a sequence of one-character strings  *)
(* ("ab" is <<"a", "b">>), so that trim, case mapping, regular-expression  *)
(* replacement and concatenation are computed character by character.      *)
(* The only multi-character elements are the opaque prefixes of the        *)
(* configured namespaces (TableNovaRoot, XsdNs), which the code never      *)
(* looks inside.                                                           *)
(***************************************************************************)
EXTENDS Integers, Sequences, FiniteSets, TLC

VARIABLES
    stagedFiles,   \* main.js: let stagedFiles
    runBtnEnabled, \* the Run button: dom.runBtn.disabled = FALSE
    db,            \* main.js: let db (FALSE = null, TRUE = opened database)
    lastOutput,    \* main.js: let lastOutput
    store,         \* the IndexedDB object store 'runs' (a set of StoredRun)
    runList,       \* the rendered run list (dom.runList)
    tasks,         \* handler invocations in flight or finished
    clock,         \* the instant new Date() returns
    uuidCounter,   \* number of crypto.randomUUID() calls made so far
    call           \* the call under evaluation in the function-level specifications

appVars == <<stagedFiles, runBtnEnabled, db, lastOutput, store, runList, tasks, clock, uuidCounter>>
vars == <<stagedFiles, runBtnEnabled, db, lastOutput, store, runList, tasks, clock, uuidCounter, call>>

(***************************************************************************)
(* Bounds of the model.                                                    *)
(***************************************************************************)
MaxCols == 3        \* widest header / row of the key-derivation inputs
MaxRows == 1        \* most data rows of the key-derivation inputs
MaxGridCols == 2    \* widest header / row of the assembled grids
MaxGridRows == 1    \* most data rows of the assembled grids
MaxStoreOps == 5    \* most put / delete / get operations on the run store
MaxStaged == 1      \* most files in the staging area
MaxTasks == 2       \* most asynchronous handler invocations (run, delete, load)
MaxUuids == 3       \* most identifiers crypto.randomUUID() hands out
MaxKeyLen == 3      \* longest enumerated column key handed to buildPredicateLocalName
MaxSlugLen == 4     \* longest enumerated string handed to slugify
MaxCellLen == 3     \* longest enumerated cell handed to buildLiteralObject
MaxLineLen == 4     \* longest enumerated line handed to parseLine
MaxTextLen == 4     \* longest enumerated text handed to parseCsvOrTsvText
MaxIndex == 703     \* largest index handed to toExcelLetters
MaxClock == 1       \* last instant the clock of the page reaches
MaxInstant == 2     \* last instant handed to buildRunGraphIri
TicksPerDay == 2    \* instants per UTC calendar day

(***************************************************************************)
(* Characters and strings.                                                 *)
(***************************************************************************)
Lower == <<"a","b","c","d","e","f","g","h","i","j","k","l","m",
           "n","o","p","q","r","s","t","u","v","w","x","y","z">>
Upper == <<"A","B","C","D","E","F","G","H","I","J","K","L","M",
           "N","O","P","Q","R","S","T","U","V","W","X","Y","Z">>
Digits == <<"0","1","2","3","4","5","6","7","8","9">>

Range(f) == {f[i] : i \in DOMAIN f}

IsDigit(c) == c \in Range(Digits)
\* \s of a JavaScript regular expression, and the characters trim() removes
Whitespace == {" ", "\t", "\n", "\r"}

IndexIn(seq, c) == CHOOSE i \in DOMAIN seq : seq[i] = c

ToLowerChar(c) == IF c \in Range(Upper) THEN Lower[IndexIn(Upper, c)] ELSE c
ToUpperChar(c) == IF c \in Range(Lower) THEN Upper[IndexIn(Lower, c)] ELSE c

\* String.prototype.toLowerCase / toUpperCase
ToLowerCase(s) == [i \in DOMAIN s |-> ToLowerChar(s[i])]
ToUpperCase(s) == [i \in DOMAIN s |-> ToUpperChar(s[i])]

RECURSIVE TrimStart(_)
TrimStart(s) == IF s # <<>> /\ Head(s) \in Whitespace THEN TrimStart(Tail(s)) ELSE s

RECURSIVE TrimEnd(_)
TrimEnd(s) ==
    IF s # <<>> /\ s[Len(s)] \in Whitespace THEN TrimEnd(SubSeq(s, 1, Len(s) - 1)) ELSE s

\* String.prototype.trim
Trim(s) == TrimEnd(TrimStart(s))

\* a || b on strings: the empty string is falsy
OrElse(a, b) == IF a = <<>> THEN b ELSE a

\* String(n) for a non-negative integer n
RECURSIVE ToDec(_)
ToDec(n) == IF n < 10 THEN <<Digits[n + 1]>> ELSE ToDec(n \div 10) \o <<Digits[(n % 10) + 1]>>

\* the value of a string of decimal digits
RECURSIVE ParseDec(_)
ParseDec(s) ==
    IF s = <<>> THEN 0
    ELSE 10 * ParseDec(SubSeq(s, 1, Len(s) - 1)) + (IndexIn(Digits, s[Len(s)]) - 1)

StartsWith(s, p) == Len(s) >= Len(p) /\ SubSeq(s, 1, Len(p)) = p
EndsWith(s, p) == Len(s) >= Len(p) /\ SubSeq(s, Len(s) - Len(p) + 1, Len(s)) = p

ColumnWord == <<"C","o","l","u","m","n">>

(***************************************************************************)
(* Plain JavaScript objects used as string-keyed maps.  An object is the   *)
(* sequence of its [key, value] entries in insertion order.                *)
(***************************************************************************)
EmptyObject == <<>>

ObjHas(obj, k) == \E i \in DOMAIN obj : obj[i].key = k
ObjGet(obj, k) == obj[CHOOSE i \in DOMAIN obj : obj[i].key = k].value

\* obj[k] = v: an existing property keeps its place, a new one is appended
ObjSet(obj, k, v) ==
    IF ObjHas(obj, k)
    THEN [i \in DOMAIN obj |-> IF obj[i].key = k THEN [key |-> k, value |-> v] ELSE obj[i]]
    ELSE Append(obj, [key |-> k, value |-> v])

\* An array index in the sense of ECMAScript: a canonical numeric string
\* whose value is at most 2^32 - 2.  Keys of ten or more digits are outside
\* the inputs of the model, so the test on the value is the test on the length.
IsArrayIndex(k) ==
    /\ k # <<>>
    /\ \A i \in DOMAIN k : IsDigit(k[i])
    /\ (Len(k) = 1 \/ k[1] # "0")
    /\ Len(k) <= 9

RECURSIVE SortAscending(_)
SortAscending(S) ==
    IF S = {} THEN <<>>
    ELSE LET m == CHOOSE x \in S : \A y \in S : x <= y
         IN <<m>> \o SortAscending(S \ {m})

RECURSIVE SelectSeq2(_, _)
SelectSeq2(s, keep) ==
    IF s = <<>> THEN <<>>
    ELSE (IF Head(s) \in keep THEN <<Head(s)>> ELSE <<>>) \o SelectSeq2(Tail(s), keep)

\* Object.keys(obj): OrdinaryOwnPropertyKeys lists the array-index keys in
\* ascending numeric order first, then the other string keys in insertion order.
ObjectKeys(obj) ==
    LET ks == [i \in DOMAIN obj |-> obj[i].key]
        idx == {k \in Range(ks) : IsArrayIndex(k)}
        nums == SortAscending({ParseDec(k) : k \in idx})
    IN [i \in DOMAIN nums |-> ToDec(nums[i])] \o SelectSeq2(ks, Range(ks) \ idx)

(***************************************************************************)
(* rdf/schema.js: column keys.                                             *)
(***************************************************************************)
\* TabularData.header is string[] | null
NullHeader == [isArray |-> FALSE, cells |-> <<>>]
ArrayHeader(cells) == [isArray |-> TRUE, cells |-> cells]

RECURSIVE ExcelLoop(_, _)
ExcelLoop(n, s) ==
    IF n >= 0
    THEN ExcelLoop((n \div 26) - 1, <<Upper[(n % 26) + 1]>> \o s)
    ELSE s

\* one letter only: the index modulo 26, without the carry
toExcelLetters_LastLetter(index) == <<Upper[((IF index < 0 THEN 0 ELSE index) % 26) + 1]>>

toExcelLetters(index) == ExcelLoop(IF index < 0 THEN 0 ELSE index, <<>>)

\* the map callback of dedupeKeys, folded over the keys with its 'seen' record
RECURSIVE DedupeLoop(_, _, _)
DedupeLoop(keys, seen, out) ==
    IF keys = <<>> THEN out
    ELSE LET base == OrElse(Trim(OrElse(Head(keys), ColumnWord)), ColumnWord)
             n == (IF ObjHas(seen, base) THEN ObjGet(seen, base) ELSE 0) + 1
         IN DedupeLoop(Tail(keys), ObjSet(seen, base, n),
                       Append(out, IF n = 1 THEN base ELSE base \o <<"_">> \o ToDec(n)))

dedupeKeys(keys) == DedupeLoop(keys, EmptyObject, <<>>)

MaxOf(S) == CHOOSE x \in S : \A y \in S : y <= x

\* buildColumnKeys counting the data rows only (the header row forgotten)
buildColumnKeys_RowsOnly(header, rows, treatFirstRowAsHeader) ==
    IF treatFirstRowAsHeader /\ header.isArray /\ Len(header.cells) > 0
    THEN dedupeKeys([i \in DOMAIN header.cells |->
                        OrElse(Trim(header.cells[i]), ColumnWord)])
    ELSE LET counts == {Len(rows[r]) : r \in DOMAIN rows}
             max == MaxOf({0} \cup counts)
         IN [i \in 1..max |-> ColumnWord \o toExcelLetters(i - 1)]

buildColumnKeys(header, rows, treatFirstRowAsHeader) ==
    IF treatFirstRowAsHeader /\ header.isArray /\ Len(header.cells) > 0
    THEN dedupeKeys([i \in DOMAIN header.cells |->
                        OrElse(Trim(header.cells[i]), ColumnWord)])
    ELSE LET counts == {IF header.isArray THEN Len(header.cells) ELSE 0}
                          \cup {Len(rows[r]) : r \in DOMAIN rows}
             max == MaxOf({0} \cup counts)
         IN [i \in 1..max |-> ColumnWord \o toExcelLetters(i - 1)]

(***************************************************************************)
(* Regular-expression replacements, character class by character class.    *)
(***************************************************************************)
\* s.replace(/[set]/g, rep)
ReplaceEach(s, set, rep) ==
    IF s = <<>> THEN <<>>
    ELSE LET F[i \in 0..Len(s)] ==
                 IF i = 0 THEN <<>>
                 ELSE F[i - 1] \o (IF s[i] \in set THEN rep ELSE <<s[i]>>)
         IN F[Len(s)]

\* s.replace(/[class]+/g, rep), the class given by its membership test on
\* each position: every maximal run of class characters becomes one rep
ReplaceRunsAt(s, inClass, rep) ==
    LET F[i \in 0..Len(s)] ==
            IF i = 0 THEN <<>>
            ELSE IF inClass[i]
                 THEN (IF i > 1 /\ inClass[i - 1] THEN F[i - 1] ELSE F[i - 1] \o rep)
                 ELSE F[i - 1] \o <<s[i]>>
    IN F[Len(s)]

ReplaceRunsIn(s, set, rep) == ReplaceRunsAt(s, [i \in DOMAIN s |-> s[i] \in set], rep)
ReplaceRunsNotIn(s, set, rep) == ReplaceRunsAt(s, [i \in DOMAIN s |-> s[i] \notin set], rep)


RECURSIVE StripLeading(_, _)
StripLeading(s, set) ==
    IF s # <<>> /\ Head(s) \in set THEN StripLeading(Tail(s), set) ELSE s

RECURSIVE StripTrailing(_, _)
StripTrailing(s, set) ==
    IF s # <<>> /\ s[Len(s)] \in set
    THEN StripTrailing(SubSeq(s, 1, Len(s) - 1), set) ELSE s

\* s.split(sep) for a one-character separator
RECURSIVE SplitLoop(_, _, _, _)
SplitLoop(s, sep, cur, out) ==
    IF s = <<>> THEN Append(out, cur)
    ELSE IF Head(s) = sep
         THEN SplitLoop(Tail(s), sep, <<>>, Append(out, cur))
         ELSE SplitLoop(Tail(s), sep, Append(cur, Head(s)), out)

Split(s, sep) == SplitLoop(s, sep, <<>>, <<>>)

\* parts.join(sep)
RECURSIVE Join(_, _)
Join(parts, sep) ==
    IF parts = <<>> THEN <<>>
    ELSE IF Len(parts) = 1 THEN parts[1]
    ELSE parts[1] \o sep \o Join(Tail(parts), sep)

(***************************************************************************)
(* rdf/schema.js: slugs, graph identifiers, predicate names.               *)
(***************************************************************************)

\* without the step that collapses runs of hyphens
slugify_NoCollapse(s) ==
    LET s1 == ToLowerCase(Trim(s))
        s2 == ReplaceEach(s1, {"."}, <<"-">>)
        s3 == ReplaceRunsIn(s2, Whitespace, <<"-">>)
        s4 == ReplaceRunsNotIn(s3, Range(Lower) \cup Range(Digits) \cup {"_", "-"}, <<"-">>)
        s6 == StripTrailing(StripLeading(s4, {"-"}), {"-"})
    IN OrElse(s6, <<"f","i","l","e">>)

slugify(s) ==
    LET s1 == ToLowerCase(Trim(s))
        s2 == ReplaceEach(s1, {"."}, <<"-">>)
        s3 == ReplaceRunsIn(s2, Whitespace, <<"-">>)
        s4 == ReplaceRunsNotIn(s3, Range(Lower) \cup Range(Digits) \cup {"_", "-"}, <<"-">>)
        s5 == ReplaceRunsIn(s4, {"-"}, <<"-">>)
        s6 == StripTrailing(StripLeading(s5, {"-"}), {"-"})
    IN OrElse(s6, <<"f","i","l","e">>)

ensureTrailingSlash(iri) == IF EndsWith(iri, <<"/">>) THEN iri ELSE iri \o <<"/">>

\* filename.replace(/\.[^.]+$/, ''): the last dot and what follows it, when
\* at least one character follows
StripExtension(filename) ==
    LET dots == {i \in DOMAIN filename : filename[i] = "."}
    IN IF dots = {} \/ MaxOf(dots) = Len(filename) THEN filename
       ELSE SubSeq(filename, 1, MaxOf(dots) - 1)

tokenizeWords(phrase) ==
    LET c1 == ReplaceRunsIn(phrase, {"_", "-"}, <<" ">>)
        c2 == ReplaceRunsNotIn(c1, Range(Upper) \cup Range(Lower) \cup Range(Digits) \cup {" "}, <<" ">>)
        c3 == ReplaceRunsIn(c2, Whitespace, <<" ">>)
        cleaned == Trim(c3)
    IN IF cleaned # <<>> THEN Split(cleaned, " ") ELSE <<>>

\* upper-cases the first character and leaves the rest as written
capitalize_KeepRest(token) ==
    IF token # <<>> THEN <<ToUpperChar(token[1])>> \o Tail(token) ELSE <<>>

capitalize(token) ==
    IF token # <<>> THEN <<ToUpperChar(token[1])>> \o ToLowerCase(Tail(token)) ELSE <<>>


buildPredicateLocalName(columnKey, predicateOptions) ==
    LET raw == OrElse(Trim(columnKey), ColumnWord)
        phrase == IF predicateOptions.prefixHas THEN <<"h","a","s"," ">> \o raw ELSE raw
        tokens == tokenizeWords(phrase)
    IN CASE predicateOptions.casing = "snake_case" ->
                Join([i \in DOMAIN tokens |-> ToLowerCase(tokens[i])], <<"_">>)
         [] predicateOptions.casing = "SHOUT_CASE" ->
                Join([i \in DOMAIN tokens |-> ToUpperCase(tokens[i])], <<"_">>)
         [] predicateOptions.casing = "PascalCase" ->
                Join([i \in DOMAIN tokens |-> capitalize(tokens[i])], <<>>)
         [] OTHER ->
                IF Len(tokens) = 0 THEN <<"h","a","s","V","a","l","u","e">>
                ELSE Join(<<ToLowerCase(tokens[1])>>
                            \o [i \in 1..(Len(tokens) - 1) |-> capitalize(tokens[i + 1])], <<>>)

RECURSIVE PredicateLoop(_, _, _, _)
PredicateLoop(columnKeys, predicateOptions, base, out) ==
    IF columnKeys = <<>> THEN out
    ELSE PredicateLoop(Tail(columnKeys), predicateOptions, base,
             ObjSet(out, Head(columnKeys),
                    base \o buildPredicateLocalName(Head(columnKeys), predicateOptions)))

\* columnKey -> predicate IRI, a plain object filled in column order
buildPredicateIrisForColumns(columnKeys, predicateOptions, basePredicateIri) ==
    PredicateLoop(columnKeys, predicateOptions, basePredicateIri, EmptyObject)

(***************************************************************************)
(* The clock.  An instant is a number of ticks since the origin; the       *)
(* origin is midnight UTC of ClockOrigin and a day has TicksPerDay ticks,  *)
(* each standing for one hour of that day.                                 *)
(***************************************************************************)
ClockOrigin == [year |-> 2026, month |-> 12, day |-> 31]

IsLeapYear(y) == (y % 4 = 0 /\ y % 100 # 0) \/ y % 400 = 0
DaysInMonth(y, m) ==
    IF m = 2 THEN (IF IsLeapYear(y) THEN 29 ELSE 28)
    ELSE IF m \in {4, 6, 9, 11} THEN 30 ELSE 31

NextDate(d) ==
    IF d.day < DaysInMonth(d.year, d.month) THEN [d EXCEPT !.day = d.day + 1]
    ELSE IF d.month < 12 THEN [year |-> d.year, month |-> d.month + 1, day |-> 1]
    ELSE [year |-> d.year + 1, month |-> 1, day |-> 1]

RECURSIVE DateAfter(_)
DateAfter(days) == IF days = 0 THEN ClockOrigin ELSE NextDate(DateAfter(days - 1))

\* now.getUTCFullYear(), now.getUTCMonth() + 1, now.getUTCDate()
UtcDate(now) == DateAfter(now \div TicksPerDay)
UtcHours(now) == now % TicksPerDay

RECURSIVE PadStart(_, _)
PadStart(s, width) == IF Len(s) >= width THEN s ELSE PadStart(<<"0">> \o s, width)

\* Date.prototype.toISOString for years 1000..9999
toISOString(date, hours) ==
    PadStart(ToDec(date.year), 4) \o <<"-">> \o PadStart(ToDec(date.month), 2)
        \o <<"-">> \o PadStart(ToDec(date.day), 2) \o <<"T">> \o PadStart(ToDec(hours), 2)
        \o <<":","0","0",":","0","0",".","0","0","0","Z">>

(***************************************************************************)
(* state/defaults.js: the configured namespaces.                           *)
(***************************************************************************)
TableNovaRoot == "https://example.org/TableNova"
baseInstanceIri == <<TableNovaRoot, "/", "i","n","s","t","a","n","c","e","#">>
basePredicateIri == <<TableNovaRoot, "/">>
baseRunIri == <<TableNovaRoot, "/", "r","u","n","#">>

buildRunGraphIri(baseRun, filename, now) ==
    LET date == SubSeq(toISOString(UtcDate(now), 0), 1, 10)
        file == slugify(StripExtension(filename))
        base == ensureTrailingSlash(baseRun)
    IN base \o date \o <<"/">> \o file

\* the n-th value returned by crypto.randomUUID(): no two calls return the same
\* the same identifier at every call
randomUUID_Fixed(n) == <<"u","u","i","d","-","0">>

randomUUID(n) == <<"u","u","i","d","-">> \o ToDec(n)

\* encodeURIComponent leaves decimal digits unchanged
buildRowInstanceIri(baseInstance, rowIndex, uuid) ==
    ensureTrailingSlash(baseInstance) \o uuid \o <<"?","r","o","w","=">> \o ToDec(rowIndex)

(***************************************************************************)
(* RDF terms, quads and the N3 store (a set of quads, kept here in the     *)
(* order of first insertion).                                              *)
(***************************************************************************)
XsdNs == "http://www.w3.org/2001/XMLSchema"
Xsd(name) == <<XsdNs, "#">> \o name
XsdString == Xsd(<<"s","t","r","i","n","g">>)
XsdBoolean == Xsd(<<"b","o","o","l","e","a","n">>)
XsdInteger == Xsd(<<"i","n","t","e","g","e","r">>)
XsdAnyURI == Xsd(<<"a","n","y","U","R","I">>)

\* the JavaScript value undefined where a string may stand
\* null (a missing header, run or output; an unset local)
Null == [isNull |-> TRUE]

Undefined == <<"undefined">>
Falsy(v) == v = Undefined \/ v = <<>>

NamedNode(iri) == [termType |-> "NamedNode", value |-> iri]
Literal(value, datatype) ==
    [termType |-> "Literal", value |-> value, language |-> <<>>, datatype |-> datatype]
DefaultGraph == [termType |-> "DefaultGraph", value |-> <<>>]
Quad(s, p, o, g) == [subject |-> s, predicate |-> p, object |-> o, graph |-> g]

EmptyStore == <<>>
addQuad(dataset, q) == IF q \in Range(dataset) THEN dataset ELSE Append(dataset, q)

RECURSIVE addQuads(_, _)
addQuads(dataset, qs) ==
    IF qs = <<>> THEN dataset ELSE addQuads(addQuad(dataset, Head(qs)), Tail(qs))

(***************************************************************************)
(* rdf/schema.js: literal coercion.  The datatypes of the model are        *)
(* xsd:string, xsd:boolean, xsd:integer, xsd:anyURI and xsd:date; the      *)
(* decimal, double, float and dateTime branches (engine number and date    *)
(* parsing) are never taken by its inputs.                                 *)
(***************************************************************************)
\* the scheme matched as written, without the i flag
looksLikeAbsoluteIri_CaseSensitive(s) ==
    \/ StartsWith(s, <<"h","t","t","p",":","/","/">>)
    \/ StartsWith(s, <<"h","t","t","p","s",":","/","/">>)

looksLikeAbsoluteIri(s) ==
    \/ StartsWith(ToLowerCase(s), <<"h","t","t","p",":","/","/">>)
    \/ StartsWith(ToLowerCase(s), <<"h","t","t","p","s",":","/","/">>)

TrueWord == <<"t","r","u","e">>
FalseWord == <<"f","a","l","s","e">>

\* the words compared as written, without toLowerCase()
toBooleanLexical_CaseSensitive(s) ==
    LET v == Trim(s)
    IN IF v \in {<<"1">>, TrueWord, <<"y","e","s">>, <<"y">>} THEN TrueWord
       ELSE IF v \in {<<"0">>, FalseWord, <<"n","o">>, <<"n">>} THEN FalseWord
       ELSE IF v # <<>> THEN TrueWord ELSE FalseWord

toBooleanLexical(s) ==
    LET v == ToLowerCase(Trim(s))
    IN IF v \in {<<"1">>, TrueWord, <<"y","e","s">>, <<"y">>} THEN TrueWord
       ELSE IF v \in {<<"0">>, FalseWord, <<"n","o">>, <<"n">>} THEN FalseWord
       ELSE IF v # <<>> THEN TrueWord ELSE FalseWord

RECURSIVE LeadingDigits(_)
LeadingDigits(s) ==
    IF s # <<>> /\ IsDigit(Head(s)) THEN <<Head(s)>> \o LeadingDigits(Tail(s)) ELSE <<>>

\* parseInt(s, 10) then String(n): an optional sign, the leading decimal
\* digits; NaN (no digit) gives '0'.  Numbers of ten or more digits are
\* outside the inputs of the model.
toIntegerLexical(s) ==
    LET t == Trim(s)
        signed == t # <<>> /\ Head(t) \in {"+", "-"}
        digits == LeadingDigits(IF signed THEN Tail(t) ELSE t)
        n == ParseDec(digits)
    IN IF digits = <<>> THEN <<"0">>
       ELSE IF signed /\ Head(t) = "-" /\ n # 0 THEN <<"-">> \o ToDec(n)
       ELSE ToDec(n)

buildLiteralObject(value, datatypeIri) ==
    LET v == Trim(value)
        dt == datatypeIri
    IN IF EndsWith(dt, <<"#","a","n","y","U","R","I">>) /\ looksLikeAbsoluteIri(v)
       THEN NamedNode(v)
       ELSE IF EndsWith(dt, <<"#","b","o","o","l","e","a","n">>)
       THEN Literal(toBooleanLexical(v), NamedNode(dt))
       ELSE IF EndsWith(dt, <<"#","i","n","t","e","g","e","r">>)
       THEN Literal(toIntegerLexical(v), NamedNode(dt))
       ELSE Literal(v, NamedNode(dt))

(***************************************************************************)
(* rdf/buildDataset.js.                                                    *)
(***************************************************************************)
\* the QuadRecord pushed for a quad
toQuadRecord(subjectIri, pIri, graphIri, obj) ==
    IF obj.termType = "NamedNode"
    THEN [s |-> subjectIri, p |-> pIri, g |-> graphIri, oType |-> "iri", oValue |-> obj.value]
    ELSE [s |-> subjectIri, p |-> pIri, g |-> graphIri, oType |-> "literal",
          oValue |-> obj.value, datatypeIri |-> obj.datatype.value,
          lang |-> IF obj.language = <<>> THEN Undefined ELSE obj.language]

\* the rows the assembler walks
\* the header row never re-inserted
dataRows_RowsOnly(tabular, options) == tabular.rows

dataRows(tabular, options) ==
    IF options.treatFirstRowAsHeader THEN tabular.rows
    ELSE (IF tabular.header.isArray THEN <<tabular.header.cells>> ELSE <<>>) \o tabular.rows

\* the body of the two loops for row r (zero-based) and column c (zero-based):
\* the [quad, record] pair emitted, or nothing
emitCell(row, c, columnKeys, options, predicateIris, graphIri, subjectIri) ==
    LET key == columnKeys[c + 1]
        pIri == ObjGet(predicateIris, key)
        cell == IF c + 1 <= Len(row) THEN row[c + 1] ELSE Undefined
    IN IF Falsy(pIri) THEN <<>>
       ELSE IF cell = Undefined \/ Trim(cell) = <<>> THEN <<>>
       ELSE LET declared == IF ObjHas(options.datatypesByColumnKey, key)
                            THEN ObjGet(options.datatypesByColumnKey, key)
                            ELSE Undefined
                datatype == IF Falsy(declared) THEN XsdString ELSE declared
                obj == buildLiteralObject(cell, datatype)
            IN << [quad |-> Quad(NamedNode(subjectIri), NamedNode(pIri), obj,
                                 NamedNode(graphIri)),
                   record |-> toQuadRecord(subjectIri, pIri, graphIri, obj)] >>

RECURSIVE emitColumns(_, _, _, _, _, _, _)
emitColumns(row, c, columnKeys, options, predicateIris, graphIri, subjectIri) ==
    IF c >= Len(columnKeys) THEN <<>>
    ELSE emitCell(row, c, columnKeys, options, predicateIris, graphIri, subjectIri)
           \o emitColumns(row, c + 1, columnKeys, options, predicateIris, graphIri, subjectIri)

RECURSIVE emitRows(_, _, _, _, _, _, _, _)
emitRows(rows, r, columnKeys, options, baseInstance, predicateIris, graphIri, uuid0) ==
    IF r >= Len(rows) THEN <<>>
    ELSE emitColumns(rows[r + 1], 0, columnKeys, options, predicateIris, graphIri,
                     buildRowInstanceIri(baseInstance, r, randomUUID(uuid0 + r)))
           \o emitRows(rows, r + 1, columnKeys, options, baseInstance, predicateIris,
                       graphIri, uuid0)

\* uuid0 is the number of randomUUID() calls made before this one; the call
\* makes one per data row
buildDatasetFromTabular(tabular, options, baseInstance, predicateIris, graphIri, uuid0) ==
    LET columnKeys == ObjectKeys(predicateIris)
        rows == dataRows(tabular, options)
        emitted == emitRows(rows, 0, columnKeys, options, baseInstance, predicateIris,
                            graphIri, uuid0)
    IN [dataset |-> addQuads(EmptyStore, [i \in DOMAIN emitted |-> emitted[i].quad]),
        quads |-> [i \in DOMAIN emitted |-> emitted[i].record],
        uuids |-> Len(rows)]

\* the term of a stored record
\* the object rebuilt with the datatype of the record forgotten
recordObject_PlainLiteral(rec) ==
    IF rec.oType = "iri" THEN NamedNode(rec.oValue)
    ELSE Literal(rec.oValue, NamedNode(XsdString))

\* the object term datasetFromQuads rebuilds from a record
recordObject(rec) ==
    IF rec.oType = "iri" THEN NamedNode(rec.oValue)
    ELSE Literal(rec.oValue,
                 NamedNode(IF Falsy(rec.datatypeIri) THEN XsdString ELSE rec.datatypeIri))

datasetFromQuads(records) ==
    addQuads(EmptyStore,
             [i \in DOMAIN records |->
                 Quad(NamedNode(records[i].s), NamedNode(records[i].p),
                      recordObject(records[i]), NamedNode(records[i].g))])

(***************************************************************************)
(* rdf/serialize.js.  The text N3.Writer produces is a function of the     *)
(* format, the prefix map and the quads of the store in store order; it is *)
(* kept as that triple.  jsonld.fromRDF is a function of the text.         *)
(***************************************************************************)
prefixes ==
    [tablenova |-> <<TableNovaRoot, "/">>,
     tablenovaid |-> <<TableNovaRoot, "/", "i","n","s","t","a","n","c","e","#">>,
     xsd |-> <<XsdNs, "#">>]
NoPrefixes == [none |-> TRUE]

writeWithN3(dataset, format, prefixMap) ==
    [format |-> format, prefixes |-> prefixMap, quads |-> dataset]

rdfToJsonLd(text, isDataset, graphIri) ==
    IF ~isDataset THEN [doc |-> text]
    ELSE [id |-> IF Falsy(graphIri)
                 THEN <<"u","r","n",":","T","a","b","l","e","N","o","v","a",":","g","r","a","p","h">>
                 ELSE graphIri,
          graph |-> [doc |-> text]]

datasetToSerializations(dataset, graphIri, prefixMap) ==
    LET triplesStore ==
            addQuads(EmptyStore,
                     [i \in DOMAIN dataset |->
                         Quad(dataset[i].subject, dataset[i].predicate, dataset[i].object,
                              DefaultGraph)])
        ntriples == writeWithN3(triplesStore, "N-Triples", NoPrefixes)
        nquads == writeWithN3(dataset, "N-Quads", NoPrefixes)
    IN [turtle |-> writeWithN3(triplesStore, "Turtle", prefixMap),
        ntriples |-> ntriples,
        trig |-> writeWithN3(dataset, "application/trig", prefixMap),
        nquads |-> nquads,
        jsonldTriples |-> rdfToJsonLd(ntriples, FALSE, Undefined),
        jsonldGraph |-> rdfToJsonLd(nquads, TRUE, graphIri)]

(***************************************************************************)
(* storage/indexedDb.js.  The object store 'runs' has keyPath 'graphIri':  *)
(* it is the set of its records.                                           *)
(***************************************************************************)

\* store.put without the replacement of the record of the same key
putRun_KeepOld(runs, run) == runs \cup {run}

\* the quads stored under the key of run, if any
StoredQuads(runs, run) ==
    IF \E r \in runs : r.graphIri = run.graphIri
    THEN (CHOOSE r \in runs : r.graphIri = run.graphIri).quads
    ELSE <<>>

\* store.put adding the quads to those already stored under the key
putRun_Merge(runs, run) ==
    {r \in runs : r.graphIri # run.graphIri}
        \cup {[run EXCEPT !.quads = StoredQuads(runs, run) \o @]}

\* store.put(run) in a committed readwrite transaction
putRun(runs, run) == {r \in runs : r.graphIri # run.graphIri} \cup {run}

\* store.delete(graphIri) in a committed readwrite transaction
deleteRun(runs, graphIri) == {r \in runs : r.graphIri # graphIri}

\* store.get(graphIri): req.result || null
getRunDataset(runs, graphIri) ==
    IF \E r \in runs : r.graphIri = graphIri
    THEN CHOOSE r \in runs : r.graphIri = graphIri
    ELSE Null

\* the order of UTF-16 code units among the characters of identifiers and
\* timestamps
CodeUnits ==
    <<"#", "-", ".", "/">> \o Digits \o <<":", "?", "=">> \o Upper \o <<"_">> \o Lower

CodeUnit(c) == IF c \in Range(CodeUnits) THEN IndexIn(CodeUnits, c) ELSE 0

\* a < b, code unit by code unit (the IndexedDB key order of strings, and
\* the order localeCompare gives two timestamps of toISOString)
StringLess(a, b) ==
    \E i \in 1..(Len(b)) :
        /\ \A j \in 1..(i - 1) : j <= Len(a) /\ a[j] = b[j]
        /\ \/ i > Len(a)
           \/ i <= Len(a) /\ a[i] # b[i] /\ CodeUnit(a[i]) < CodeUnit(b[i])

\* the comparator with its operands exchanged: oldest first
ListedBefore_OldestFirst(r1, r2) ==
    \/ StringLess(r1.createdAtIso, r2.createdAtIso)
    \/ r1.createdAtIso = r2.createdAtIso /\ StringLess(r1.graphIri, r2.graphIri)

\* getAll() answers in key order; Array.prototype.sort is stable
ListedBefore(r1, r2) ==
    \/ StringLess(r2.createdAtIso, r1.createdAtIso)
    \/ r1.createdAtIso = r2.createdAtIso /\ StringLess(r1.graphIri, r2.graphIri)

RECURSIVE SortRuns(_)
SortRuns(runs) ==
    IF runs = {} THEN <<>>
    ELSE LET first == CHOOSE r \in runs : \A o \in runs \ {r} : ListedBefore(r, o)
         IN <<[graphIri |-> first.graphIri, filename |-> first.filename,
               createdAtIso |-> first.createdAtIso]>> \o SortRuns(runs \ {first})

listRuns(runs) == SortRuns(runs)

(***************************************************************************)
(* tabular/parseTabular.js.                                                *)
(***************************************************************************)
detectTabularType(filename) ==
    LET lower == ToLowerCase(filename)
    IN IF EndsWith(lower, <<".","x","l","s","x">>) \/ EndsWith(lower, <<".","x","l","s">>)
       THEN "xlsx"
       ELSE IF EndsWith(lower, <<".","t","s","v">>) THEN "tsv"
       ELSE IF EndsWith(lower, <<".","c","s","v">>) THEN "csv"
       ELSE IF EndsWith(lower, <<".","t","x","t">>) THEN "csv"
       ELSE "unknown"

CountOf(line, c) == Cardinality({i \in DOMAIN line : line[i] = c})

\* a tie between tabs and commas gives the tab
detectDelimiterFromLine_TieToTab(line) ==
    IF CountOf(line, "\t") >= CountOf(line, ",") THEN "\t" ELSE ","

detectDelimiterFromLine(line) ==
    IF CountOf(line, "\t") > CountOf(line, ",") THEN "\t" ELSE ","

\* the loop of parseLine from position i (one-based) on: [out, cur] at its end
RECURSIVE ParseLineLoop(_, _, _, _, _, _)
ParseLineLoop(line, delim, i, out, cur, inQuotes) ==
    IF i > Len(line) THEN Append(out, cur)
    ELSE LET ch == line[i]
         IN IF inQuotes
            THEN IF ch = "\""
                 THEN IF i + 1 <= Len(line) /\ line[i + 1] = "\""
                      THEN ParseLineLoop(line, delim, i + 2, out, Append(cur, "\""), TRUE)
                      ELSE ParseLineLoop(line, delim, i + 1, out, cur, FALSE)
                 ELSE ParseLineLoop(line, delim, i + 1, out, Append(cur, ch), TRUE)
            ELSE IF ch = "\"" THEN ParseLineLoop(line, delim, i + 1, out, cur, TRUE)
                 ELSE IF ch = delim
                      THEN ParseLineLoop(line, delim, i + 1, Append(out, cur), <<>>, FALSE)
                      ELSE ParseLineLoop(line, delim, i + 1, out, Append(cur, ch), FALSE)

\* the line cut at every delimiter, quotes taken as content
parseLine_NoQuotes(line, delim) == Split(line, delim)

parseLine(line, delim) == ParseLineLoop(line, delim, 1, <<>>, <<>>, FALSE)

\* the cells as parsed, untrimmed
normalizeRow_Untrimmed(row) == row

normalizeRow(row) == [i \in DOMAIN row |-> Trim(row[i])]

\* src.replace(/\r\n/g, '\n').replace(/\r/g, '\n')
RECURSIVE NormalizeNewlines(_)
NormalizeNewlines(src) ==
    IF src = <<>> THEN <<>>
    ELSE IF Head(src) = "\r"
         THEN <<"\n">> \o NormalizeNewlines(IF Len(src) >= 2 /\ src[2] = "\n"
                                            THEN Tail(Tail(src)) ELSE Tail(src))
         ELSE <<Head(src)>> \o NormalizeNewlines(Tail(src))

parseCsvOrTsvText(text, delimiterHint) ==
    LET lines == Split(NormalizeNewlines(text), "\n")
        nonEmpty == {i \in DOMAIN lines : Len(Trim(lines[i])) > 0}
        firstNonEmpty == IF nonEmpty = {} THEN <<>>
                         ELSE lines[CHOOSE i \in nonEmpty : \A j \in nonEmpty : i <= j]
        \* a hint is a string of one character
        delim == IF delimiterHint = Undefined THEN detectDelimiterFromLine(firstNonEmpty)
                 ELSE delimiterHint[1]
        kept == SelectSeq(lines, LAMBDA l : Len(l) # 0)
        all == [i \in DOMAIN kept |-> parseLine(kept[i], delim)]
    IN IF Len(all) = 0 THEN [header |-> NullHeader, rows |-> <<>>]
       ELSE [header |-> ArrayHeader(normalizeRow(all[1])),
             rows |-> [i \in 1..(Len(all) - 1) |-> normalizeRow(all[i + 1])]]

(***************************************************************************)
(* State after the module scripts have loaded (main.js, before init()).    *)
(***************************************************************************)
NoCall == [op |-> "none"]

\* init() has run up to its first await: the Run button is disabled
AppInit ==
    /\ stagedFiles = <<>>
    /\ runBtnEnabled = FALSE
    /\ db = FALSE
    /\ lastOutput = Null
    /\ store = {}
    /\ runList = <<>>
    /\ tasks = <<>>
    /\ clock = 0
    /\ uuidCounter = 0

SeqsUpTo(S, n) == UNION {[1..k -> S] : k \in 0..n}

(***************************************************************************)
(* SpecKeys: buildColumnKeys applied to every header over KeyLabels of at  *)
(* most MaxCols cells (or no header), at most MaxRows rows of at most      *)
(* MaxCols cells, and both values of treatFirstRowAsHeader.                *)
(***************************************************************************)
KeyLabels == {<<>>, <<"a">>, <<"a", "_", "2">>, <<"1">>}
KeyHeaders == {NullHeader} \cup {ArrayHeader(c) : c \in SeqsUpTo(KeyLabels, MaxCols)}
KeyRows == SeqsUpTo({[i \in 1..w |-> <<"x">>] : w \in 0..MaxCols}, MaxRows)

InitKeys ==
    /\ AppInit
    /\ call \in {[op |-> "buildColumnKeys", header |-> h, rows |-> r,
                  treatFirstRowAsHeader |-> t, returned |-> FALSE, keys |-> <<>>,
                  asked |-> FALSE, selectorKeys |-> <<>>] :
                    h \in KeyHeaders, r \in KeyRows, t \in BOOLEAN}

CallBuildColumnKeys ==
    /\ call.op = "buildColumnKeys"
    /\ ~call.returned
    /\ call' = [call EXCEPT !.returned = TRUE,
                            !.keys = buildColumnKeys(call.header, call.rows,
                                                     call.treatFirstRowAsHeader)]
    /\ UNCHANGED appVars

\* the same loop as toExcelLetters, in ui/render.js
excelLetters(index) == ExcelLoop(IF index < 0 THEN 0 ELSE index, <<>>)

\* the key under which a datatype chosen in the selector of column colIndex
\* is stored in options.datatypesByColumnKey
getColumnKeyForDatatype(staged, colIndex) ==
    LET preview == staged.options.preview
        header == IF preview = Null \/ ~preview.header.isArray THEN <<>>
                  ELSE preview.header.cells
        label == IF colIndex + 1 \in DOMAIN header THEN header[colIndex + 1] ELSE Undefined
    IN IF staged.options.treatFirstRowAsHeader /\ ~Falsy(label) THEN label
       ELSE ColumnWord \o excelLetters(colIndex)

\* the same grid previewed: buildPreviewTable makes one datatype selector per
\* column; getColumnKeyForDatatype is called for every selector's index
CallGetColumnKeyForDatatype ==
    /\ call.op = "buildColumnKeys"
    /\ ~call.asked
    /\ LET staged == [options |-> [treatFirstRowAsHeader |-> call.treatFirstRowAsHeader,
                                   preview |-> [header |-> call.header, rows |-> call.rows]]]
           header == IF call.header.isArray THEN call.header.cells ELSE <<>>
           effectiveCols == MaxOf({Len(header)} \cup {Len(call.rows[r]) : r \in DOMAIN call.rows})
       IN call' = [call EXCEPT !.asked = TRUE,
                               !.selectorKeys = [i \in 1..effectiveCols |->
                                                    getColumnKeyForDatatype(staged, i - 1)]]
    /\ UNCHANGED appVars

NextKeys == CallBuildColumnKeys \/ CallGetColumnKeyForDatatype

SpecKeys == InitKeys /\ [][NextKeys]_vars

KeysReturned == call.op = "buildColumnKeys" /\ call.returned
UsesHeaderLabels ==
    call.treatFirstRowAsHeader /\ call.header.isArray /\ Len(call.header.cells) > 0

\* C9: with treatFirstRowAsHeader and a non-empty header, the keys have the
\* header's length, are pairwise distinct, and the n-th occurrence of a label
\* ('Column' for an empty cell) is the label itself for n = 1 and label_n after.
C9_KeysDistinctAndSuffixed ==
    (KeysReturned /\ UsesHeaderLabels) =>
        LET cells == call.header.cells
            label(i) == OrElse(cells[i], ColumnWord)
            occurrence(i) == Cardinality({j \in 1..i : label(j) = label(i)})
        IN /\ Len(call.keys) = Len(cells)
           /\ \A i, j \in DOMAIN call.keys : i # j => call.keys[i] # call.keys[j]
           /\ \A i \in DOMAIN call.keys :
                 call.keys[i] = IF occurrence(i) = 1 THEN label(i)
                                ELSE label(i) \o <<"_">> \o ToDec(occurrence(i))

\* header ['a', 'a', 'a_2']: the second and third keys are both 'a_2'
C9_SuffixCollidesWithLabel ==
    /\ KeysReturned /\ UsesHeaderLabels
    /\ call.header.cells = << <<"a">>, <<"a">>, <<"a","_","2">> >>
    /\ call.keys = << <<"a">>, <<"a","_","2">>, <<"a","_","2">> >>

\* C10: without header labels (treatFirstRowAsHeader false, header absent or
\* empty) there are exactly as many keys as the widest of the header row and
\* the data rows, the i-th being 'Column' followed by the i-th letter; an
\* empty grid yields no keys.
C10_OrdinalKeys ==
    (KeysReturned /\ ~UsesHeaderLabels) =>
        LET widths == {Len(call.rows[r]) : r \in DOMAIN call.rows}
                        \cup (IF call.header.isArray THEN {Len(call.header.cells)} ELSE {})
            n == Len(call.keys)
        IN /\ \A w \in widths : w <= n
           /\ n = 0 \/ n \in widths
           /\ \A i \in 1..n : i <= 26 => call.keys[i] = ColumnWord \o <<Upper[i]>>
           /\ (~call.header.isArray /\ call.rows = <<>>) => call.keys = <<>>

\* a header row that is ignored as labels and is wider than every data row
C10_Witness ==
    /\ KeysReturned
    /\ ~call.treatFirstRowAsHeader
    /\ call.header.isArray /\ Len(call.header.cells) = 2
    /\ Len(call.rows) = 1 /\ Len(call.rows[1]) = 1
    /\ call.keys = <<ColumnWord \o <<"A">>, ColumnWord \o <<"B">>>>

(***************************************************************************)
(* SpecPipeline: one run followed by one reload, with no failure and no    *)
(* other handler in between, for every grid of at most MaxGridCols columns *)
(* and MaxGridRows data rows: the synchronous path of handleRun            *)
(* (buildColumnKeys, buildPredicateIrisForColumns, buildRunGraphIri,       *)
(* buildDatasetFromTabular, datasetToSerializations, putRun) and of        *)
(* handleLoadRunToOutput (getRunDataset, datasetFromQuads,                 *)
(* datasetToSerializations).                                               *)
(***************************************************************************)
GridLabels == {<<"a">>, <<"1">>}
IriCell == <<"h","t","t","p",":","/","/","e">>
GridCells == {<<>>, IriCell}
GridHeaders == {NullHeader} \cup {ArrayHeader(c) : c \in SeqsUpTo(GridLabels, MaxGridCols)}
GridRows == SeqsUpTo(SeqsUpTo(GridCells, MaxGridCols), MaxGridRows)
GridDatatypes == {Undefined, XsdAnyURI, XsdInteger, XsdBoolean}
GridFilename == <<"a",".","c","s","v">>

defaultPredicateOptions == [prefixHas |-> TRUE, casing |-> "camelCase", whenNoHeader |-> "ordinal"]

\* FileOptions declaring a datatype for the first column (or for none); the
\* other columns get the default, xsd:string
GridOptions(tabular, treat, datatype) ==
    LET keys == buildColumnKeys(tabular.header, tabular.rows, treat)
    IN [treatFirstRowAsHeader |-> treat,
        delimiterHint |-> Undefined,
        predicate |-> defaultPredicateOptions,
        preview |-> Null,
        datatypesByColumnKey |->
            IF datatype = Undefined \/ keys = <<>> THEN EmptyObject
            ELSE ObjSet(EmptyObject, keys[1], datatype)]

InitPipeline ==
    /\ AppInit
    /\ call \in {[op |-> "pipeline", step |-> "parsed",
                  tabular |-> [header |-> h, rows |-> r],
                  options |-> GridOptions([header |-> h, rows |-> r], t, d)] :
                    h \in GridHeaders, r \in GridRows, t \in BOOLEAN, d \in GridDatatypes}

\* handleRun from the parsed grid to the assembled quads
PipelineAssemble ==
    /\ call.op = "pipeline" /\ call.step = "parsed"
    /\ LET columnKeys == buildColumnKeys(call.tabular.header, call.tabular.rows,
                                         call.options.treatFirstRowAsHeader)
           predicateIris == buildPredicateIrisForColumns(columnKeys, call.options.predicate,
                                                         basePredicateIri)
           graphIri == buildRunGraphIri(baseRunIri, GridFilename, clock)
           built == buildDatasetFromTabular(call.tabular, call.options, baseInstanceIri,
                                            predicateIris, graphIri, uuidCounter)
       IN /\ call' = [op |-> "pipeline", step |-> "assembled",
                      tabular |-> call.tabular, options |-> call.options,
                      columnKeys |-> columnKeys, predicateIris |-> predicateIris,
                      graphIri |-> graphIri, dataset |-> built.dataset,
                      quads |-> built.quads]
          /\ uuidCounter' = uuidCounter + built.uuids
    /\ UNCHANGED <<stagedFiles, runBtnEnabled, db, lastOutput, store, runList, tasks, clock>>

\* handleRun from the assembled quads to the stored run
PipelineStore ==
    /\ call.op = "pipeline" /\ call.step = "assembled"
    /\ call' = [op |-> "pipeline", step |-> "stored",
                tabular |-> call.tabular, options |-> call.options,
                columnKeys |-> call.columnKeys, predicateIris |-> call.predicateIris,
                graphIri |-> call.graphIri, dataset |-> call.dataset, quads |-> call.quads,
                ser |-> datasetToSerializations(call.dataset, call.graphIri, prefixes)]
    /\ store' = putRun(store, [graphIri |-> call.graphIri, filename |-> GridFilename,
                               createdAtIso |-> toISOString(UtcDate(clock), UtcHours(clock)),
                               quads |-> call.quads])
    /\ UNCHANGED <<stagedFiles, runBtnEnabled, db, lastOutput, runList, tasks, clock, uuidCounter>>

\* handleLoadRunToOutput for the graph identifier of the run
PipelineReload ==
    /\ call.op = "pipeline" /\ call.step = "stored"
    /\ LET run == getRunDataset(store, call.graphIri)
           rebuilt == datasetFromQuads(run.quads)
       IN call' = [op |-> "pipeline", step |-> "reloaded",
                   tabular |-> call.tabular, options |-> call.options,
                   columnKeys |-> call.columnKeys, predicateIris |-> call.predicateIris,
                   graphIri |-> call.graphIri, dataset |-> call.dataset, quads |-> call.quads,
                   ser |-> call.ser, run |-> run, rebuilt |-> rebuilt,
                   reser |-> datasetToSerializations(rebuilt, call.graphIri, prefixes)]
    /\ UNCHANGED appVars

NextPipeline == PipelineAssemble \/ PipelineStore \/ PipelineReload

SpecPipeline == InitPipeline /\ [][NextPipeline]_vars

Assembled == call.op = "pipeline" /\ call.step # "parsed"

\* the effective data rows, stated from the grid
EffectiveRows ==
    IF call.options.treatFirstRowAsHeader THEN call.tabular.rows
    ELSE (IF call.tabular.header.isArray THEN <<call.tabular.header.cells>> ELSE <<>>)
           \o call.tabular.rows

\* C1: the number of QuadRecords equals the number of non-blank cells of the
\* effective data rows (ragged rows included).
C1_OneRecordPerNonBlankCell ==
    Assembled =>
        Len(call.quads) =
            Cardinality({rc \in (DOMAIN EffectiveRows) \X (1..(MaxGridCols + 1)) :
                            /\ rc[2] <= Len(EffectiveRows[rc[1]])
                            /\ Trim(EffectiveRows[rc[1]][rc[2]]) # <<>>})

\* header ['1'] with the data row ['', 'http://e']: the second cell is not
\* blank and no record is emitted
C1_RaggedRowLosesCell ==
    /\ Assembled
    /\ call.options.treatFirstRowAsHeader
    /\ call.tabular.header = ArrayHeader(<< <<"1">> >>)
    /\ call.tabular.rows = << << <<>>, IriCell >> >>
    /\ call.quads = <<>>

\* the non-blank cells below the number of keys, in row-major order
RECURSIVE CellsInOrder(_, _, _)
CellsInOrder(r, c, width) ==
    IF r > Len(EffectiveRows) THEN <<>>
    ELSE IF c > width THEN CellsInOrder(r + 1, 1, width)
    ELSE (IF c <= Len(EffectiveRows[r]) /\ Trim(EffectiveRows[r][c]) # <<>>
          THEN <<[row |-> r, col |-> c]>> ELSE <<>>) \o CellsInOrder(r, c + 1, width)

\* C2: the record of the cell at column position c carries the predicate of
\* the c-th key of buildColumnKeys, and records come row by row, columns
\* ascending inside a row.
C2_PredicateOfColumnPosition ==
    Assembled =>
        LET keys == buildColumnKeys(call.tabular.header, call.tabular.rows,
                                    call.options.treatFirstRowAsHeader)
            cells == CellsInOrder(1, 1, Len(keys))
        IN /\ Len(call.quads) = Len(cells)
           /\ \A i \in DOMAIN call.quads :
                 /\ call.quads[i].p =
                        basePredicateIri
                          \o buildPredicateLocalName(keys[cells[i].col], call.options.predicate)
                 /\ EndsWith(call.quads[i].s,
                             <<"?","r","o","w","=">> \o ToDec(cells[i].row - 1))

\* header ['a', '1'] with the data row ['http://e']: the only cell, at
\* column position 0, carries the predicate of the key '1'
C2_NumericLabelTakesFirstColumn ==
    /\ Assembled
    /\ call.options.treatFirstRowAsHeader
    /\ call.tabular.header = ArrayHeader(<< <<"a">>, <<"1">> >>)
    /\ call.tabular.rows = << << IriCell >> >>
    /\ Len(call.quads) = 1
    /\ call.quads[1].p = basePredicateIri \o <<"h","a","s","1">>

\* C3: the dataset rebuilt from the stored records is the assembled dataset,
\* its six serializations are the same, and the reload mints no identifier.
C3_RoundTrip ==
    (call.op = "pipeline" /\ call.step = "reloaded") =>
        /\ call.run.quads = call.quads
        /\ call.rebuilt = call.dataset
        /\ call.reser = call.ser
        /\ {call.rebuilt[i].subject.value : i \in DOMAIN call.rebuilt}
              = {call.quads[i].s : i \in DOMAIN call.quads}

\* a reloaded run of two quads, one with a named-node object and one with a
\* literal
C3_Witness ==
    /\ call.op = "pipeline" /\ call.step = "reloaded"
    /\ Len(call.rebuilt) = 2
    /\ \E i \in DOMAIN call.rebuilt : call.rebuilt[i].object.termType = "NamedNode"
    /\ \E i \in DOMAIN call.rebuilt : call.rebuilt[i].object.termType = "Literal"

(***************************************************************************)
(* SpecGraphIri: buildRunGraphIri called twice, for every pair of          *)
(* filenames of RunFilenames and every pair of instants up to MaxInstant   *)
(* (the clock starts on the last day of a year, so that a change of day is *)
(* also a change of month and year).                                       *)
(***************************************************************************)
RunFilenames == {<<"a",".","c","s","v">>, <<"a",".","t","s","v">>,
                 <<"A",".","c","s","v">>, <<"b",".","c","s","v">>}

InitGraphIri ==
    /\ AppInit
    /\ call \in {[op |-> "buildRunGraphIri", returned |-> FALSE,
                  filename1 |-> f1, now1 |-> n1, filename2 |-> f2, now2 |-> n2] :
                    f1 \in RunFilenames, f2 \in RunFilenames,
                    n1 \in 0..MaxInstant, n2 \in 0..MaxInstant}

CallBuildRunGraphIri ==
    /\ call.op = "buildRunGraphIri" /\ ~call.returned
    /\ call' = [op |-> "buildRunGraphIri", returned |-> TRUE,
                filename1 |-> call.filename1, now1 |-> call.now1,
                filename2 |-> call.filename2, now2 |-> call.now2,
                iri1 |-> buildRunGraphIri(baseRunIri, call.filename1, call.now1),
                iri2 |-> buildRunGraphIri(baseRunIri, call.filename2, call.now2)]
    /\ UNCHANGED appVars

NextGraphIri == CallBuildRunGraphIri

SpecGraphIri == InitGraphIri /\ [][NextGraphIri]_vars

SameUtcDay(n1, n2) == UtcDate(n1) = UtcDate(n2)

\* C8: same filename and same UTC calendar day give the same identifier; a
\* different filename or a different UTC calendar day gives a different one.
C8_SameIffSameFileAndDay ==
    (call.op = "buildRunGraphIri" /\ call.returned) =>
        (call.iri1 = call.iri2
            <=> (call.filename1 = call.filename2 /\ SameUtcDay(call.now1, call.now2)))

\* 'a.csv' and 'a.tsv' at the same instant get one identifier
C8_TwoFilenamesOneIdentifier ==
    /\ call.op = "buildRunGraphIri" /\ call.returned
    /\ call.filename1 = <<"a",".","c","s","v">>
    /\ call.filename2 = <<"a",".","t","s","v">>
    /\ call.now1 = call.now2
    /\ call.iri1 = call.iri2

(***************************************************************************)
(* SpecStore: up to MaxStoreOps operations putRun / deleteRun /            *)
(* getRunDataset on the run store, over two graph identifiers and records  *)
(* that differ in every other field.  call.lastPut remembers, per key, the *)
(* record of the last putRun not followed by a deleteRun.                  *)
(***************************************************************************)
StoreKeys == {buildRunGraphIri(baseRunIri, <<"a",".","c","s","v">>, 0),
              buildRunGraphIri(baseRunIri, <<"b",".","c","s","v">>, 0)}

StoreRecord(k, version) ==
    [graphIri |-> k,
     filename |-> IF version = 1 THEN <<"a",".","c","s","v">> ELSE <<"a",".","t","s","v">>,
     createdAtIso |-> toISOString(UtcDate(0), version - 1),
     quads |-> IF version = 1 THEN <<>>
               ELSE <<[s |-> baseInstanceIri, p |-> basePredicateIri, oType |-> "iri",
                       oValue |-> IriCell, g |-> k]>>]

InitStore ==
    /\ AppInit
    /\ call = [op |-> "store", ops |-> 0, last |-> "none",
               lastPut |-> [k \in StoreKeys |-> Null]]

StorePut(run) ==
    /\ call.op = "store" /\ call.ops < MaxStoreOps
    /\ store' = putRun(store, run)
    /\ call' = [op |-> "store", ops |-> call.ops + 1, last |-> "put",
                lastPut |-> [call.lastPut EXCEPT ![run.graphIri] = run]]
    /\ UNCHANGED <<stagedFiles, runBtnEnabled, db, lastOutput, runList, tasks, clock, uuidCounter>>

StoreDelete(k) ==
    /\ call.op = "store" /\ call.ops < MaxStoreOps
    /\ store' = deleteRun(store, k)
    /\ call' = [op |-> "store", ops |-> call.ops + 1, last |-> "delete",
                lastPut |-> [call.lastPut EXCEPT ![k] = Null]]
    /\ UNCHANGED <<stagedFiles, runBtnEnabled, db, lastOutput, runList, tasks, clock, uuidCounter>>

StoreGet(k) ==
    /\ call.op = "store" /\ call.ops < MaxStoreOps
    /\ call' = [op |-> "store", ops |-> call.ops + 1, last |-> "get",
                lastPut |-> call.lastPut, key |-> k, result |-> getRunDataset(store, k)]
    /\ UNCHANGED appVars

StoreList ==
    /\ call.op = "store" /\ call.ops < MaxStoreOps
    /\ call' = [op |-> "store", ops |-> call.ops + 1, last |-> "list",
                lastPut |-> call.lastPut, listed |-> listRuns(store)]
    /\ UNCHANGED appVars

NextStore ==
    \/ \E k \in StoreKeys, version \in 1..2 : StorePut(StoreRecord(k, version))
    \/ \E k \in StoreKeys : StoreDelete(k)
    \/ \E k \in StoreKeys : StoreGet(k)
    \/ StoreList

SpecStore == InitStore /\ [][NextStore]_vars

\* C7: the store holds at most one record per graphIri, and getRunDataset(k)
\* returns the whole record of the last putRun of k not followed by a
\* deleteRun(k), and null when there is none.
C7_LastWriteWins ==
    call.op = "store" =>
        /\ \A r1 \in store, r2 \in store : r1.graphIri = r2.graphIri => r1 = r2
        /\ call.last = "get" => call.result = call.lastPut[call.key]

\* a get that returns the second record put under a key, the other key deleted
C7_Witness ==
    /\ call.op = "store" /\ call.last = "get"
    /\ call.result # Null
    /\ call.result = StoreRecord(call.key, 2)
    /\ call.ops = MaxStoreOps
    /\ Cardinality(store) = 1

(***************************************************************************)
(* Spec: the page.  init opens the database, refreshes the run list and    *)
(* only then registers the listeners; afterwards every handler can be      *)
(* started at any moment, and an asynchronous handler (handleRun,          *)
(* handleDeleteRun, handleLoadRunToOutput) advances from one await to the  *)
(* next in a step of its own, so that the steps of different invocations   *)
(* interleave as the event loop allows.  An awaited operation (file read,  *)
(* module import and assembly, serialization, store transaction, run       *)
(* list query) either completes or rejects.  N3 is the global the page     *)
(* provides.  The files are CSV and TSV texts (the spreadsheet codec is    *)
(* not modelled).                                                          *)
(***************************************************************************)
AppFiles ==
    {[name |-> <<"a",".","c","s","v">>, text |-> <<"a",",","1","\n","x",",","y">>],
     [name |-> <<"b",".","t","s","v">>, text |-> <<"b","\n","y">>]}

fileOptions ==
    [treatFirstRowAsHeader |-> TRUE,
     delimiterHint |-> Undefined,
     predicate |-> defaultPredicateOptions,
     preview |-> Null,
     datatypesByColumnKey |-> EmptyObject]


\* an invocation of an asynchronous handler: its position (pc), its locals,
\* what it reported (outcome), the await that rejected (failedAt), the number
\* of calls of its failure handler (reports), the content of the store when
\* it started and when it settled, and for a preview the staging list just
\* before and just after its update
NewTask(kind, pc) ==
    [kind |-> kind, pc |-> pc, outcome |-> "none", failedAt |-> "none", reports |-> 0,
     staged |-> Null, graphIri |-> Undefined, tabular |-> Null, predicateIris |-> <<>>,
     dataset |-> <<>>, quads |-> <<>>, ser |-> Null, run |-> Null,
     storeBefore |-> store, storeAfter |-> {},
     stagedId |-> Undefined, stagedBefore |-> <<>>, stagedAfter |-> <<>>]

Init ==
    /\ AppInit
    /\ call = NoCall

Ready == db = TRUE

\* init(): db = await openTableNovaDb(); await refreshRunsList(); listeners
InitPage ==
    /\ db = FALSE
    /\ db' = TRUE
    /\ runList' = listRuns(store)
    /\ UNCHANGED <<stagedFiles, runBtnEnabled, lastOutput, store, tasks, clock, uuidCounter, call>>

toStagedFiles(files) ==
    [i \in DOMAIN files |->
        [id |-> randomUUID(uuidCounter + i - 1), file |-> files[i], options |-> fileOptions]]

\* the Run button left enabled whatever is staged
setStagedFiles_ButtonOn(next) ==
    /\ stagedFiles' = next
    /\ runBtnEnabled' = TRUE

\* setStagedFiles: the list is replaced and rendered, the Run button is
\* enabled iff the list is not empty
setStagedFiles(next) ==
    /\ stagedFiles' = next
    /\ runBtnEnabled' = (Len(next) > 0)

AddFiles(files) ==
    /\ Ready
    /\ Len(files) > 0
    /\ Len(stagedFiles) + Len(files) <= MaxStaged
    /\ uuidCounter + Len(files) <= MaxUuids
    /\ setStagedFiles(stagedFiles \o toStagedFiles(files))
    /\ uuidCounter' = uuidCounter + Len(files)
    /\ UNCHANGED <<db, lastOutput, store, runList, tasks, clock, call>>

handleDrop == \E files \in SeqsUpTo(AppFiles, MaxStaged) : AddFiles(files)

handleFileInputChange == \E files \in SeqsUpTo(AppFiles, MaxStaged) : AddFiles(files)

handleRemoveStagedFile ==
    /\ Ready
    /\ \E i \in DOMAIN stagedFiles :
          setStagedFiles(SelectSeq(stagedFiles, LAMBDA st : st.id # stagedFiles[i].id))
    /\ UNCHANGED <<db, lastOutput, store, runList, tasks, clock, uuidCounter, call>>

handleClearStaged ==
    /\ Ready
    /\ setStagedFiles(<<>>)
    /\ UNCHANGED <<db, lastOutput, store, runList, tasks, clock, uuidCounter, call>>

handleUpdateFileOptions(stagedId, nextOptions) ==
    setStagedFiles([i \in DOMAIN stagedFiles |->
                       IF stagedFiles[i].id = stagedId
                       THEN [stagedFiles[i] EXCEPT !.options = nextOptions]
                       ELSE stagedFiles[i]])

\* the header checkbox of the options panel, for the file the panel shows
handleHeaderToggle ==
    /\ Ready
    /\ \E i \in DOMAIN stagedFiles, checked \in BOOLEAN :
          handleUpdateFileOptions(stagedFiles[i].id,
              [stagedFiles[i].options EXCEPT !.treatFirstRowAsHeader = checked])
    /\ UNCHANGED <<db, lastOutput, store, runList, tasks, clock, uuidCounter, call>>

Tick ==
    /\ clock < MaxClock
    /\ clock' = clock + 1
    /\ UNCHANGED <<stagedFiles, runBtnEnabled, db, lastOutput, store, runList, tasks, uuidCounter, call>>

\* the handler settles and a failure reaches no failure handler
Settle_Unreported(t, outcome, failedAt, storeAfter) ==
    [t EXCEPT !.pc = "done", !.outcome = outcome, !.failedAt = failedAt,
              !.storeAfter = storeAfter, !.staged = Null, !.tabular = Null,
              !.predicateIris = <<>>, !.dataset = <<>>, !.ser = Null, !.run = Null]

\* the handler settles (safeAsync returns; a caught failure has gone through
\* onError exactly once): its locals are gone
Settle(t, outcome, failedAt, storeAfter) ==
    [t EXCEPT !.pc = "done", !.outcome = outcome, !.failedAt = failedAt,
              !.reports = IF outcome = "failed" THEN @ + 1 ELSE @,
              !.storeAfter = storeAfter, !.staged = Null, !.tabular = Null,
              !.predicateIris = <<>>, !.dataset = <<>>, !.ser = Null, !.run = Null]

\* handleRun is called: its two guards (no database, nothing staged), then
\* the file read is started
RunClick ==
    /\ Len(tasks) < MaxTasks
    /\ IF ~Ready
       THEN tasks' = Append(tasks, Settle(NewTask("run", "done"), "no database", "none", store))
       ELSE IF Len(stagedFiles) = 0
       THEN tasks' = Append(tasks, Settle(NewTask("run", "done"), "nothing to run", "none", store))
       ELSE tasks' = Append(tasks, [NewTask("run", "read") EXCEPT !.staged = stagedFiles[1]])
    /\ UNCHANGED <<stagedFiles, runBtnEnabled, db, lastOutput, store, runList, clock, uuidCounter, call>>

\* the file is read: parse, column keys, predicate map, graph identifier;
\* the assembler is imported and called
RunRead(i) ==
    /\ tasks[i].kind = "run" /\ tasks[i].pc = "read"
    /\ detectTabularType(tasks[i].staged.file.name) # "xlsx"
    /\ LET staged == tasks[i].staged
           tabular == parseCsvOrTsvText(staged.file.text, staged.options.delimiterHint)
           columnKeys == buildColumnKeys(tabular.header, tabular.rows,
                                         staged.options.treatFirstRowAsHeader)
           predicateIris == buildPredicateIrisForColumns(columnKeys, staged.options.predicate,
                                                         basePredicateIri)
           graphIri == buildRunGraphIri(baseRunIri, staged.file.name, clock)
       IN tasks' = [tasks EXCEPT ![i] = [@ EXCEPT !.pc = "assemble", !.tabular = tabular,
                                                  !.predicateIris = predicateIris,
                                                  !.graphIri = graphIri]]
    /\ UNCHANGED <<stagedFiles, runBtnEnabled, db, lastOutput, store, runList, clock, uuidCounter, call>>

\* buildDatasetFromTabular returns; datasetToSerializations is called
RunAssemble(i) ==
    /\ tasks[i].kind = "run" /\ tasks[i].pc = "assemble"
    /\ LET t == tasks[i]
           built == buildDatasetFromTabular(t.tabular, t.staged.options, baseInstanceIri,
                                            t.predicateIris, t.graphIri, uuidCounter)
       IN /\ uuidCounter + built.uuids <= MaxUuids
          /\ tasks' = [tasks EXCEPT ![i] = [@ EXCEPT !.pc = "serialize",
                                                     !.dataset = built.dataset,
                                                     !.quads = built.quads]]
          /\ uuidCounter' = uuidCounter + built.uuids
    /\ UNCHANGED <<stagedFiles, runBtnEnabled, db, lastOutput, store, runList, clock, call>>

\* datasetToSerializations returns; putRun is called with the record
RunSerialize(i) ==
    /\ tasks[i].kind = "run" /\ tasks[i].pc = "serialize"
    /\ LET t == tasks[i]
       IN tasks' = [tasks EXCEPT ![i] =
                       [@ EXCEPT !.pc = "put",
                                 !.ser = datasetToSerializations(t.dataset, t.graphIri, prefixes),
                                 !.run = [graphIri |-> t.graphIri,
                                          filename |-> t.staged.file.name,
                                          createdAtIso |-> toISOString(UtcDate(clock),
                                                                       UtcHours(clock)),
                                          quads |-> t.quads]]]
    /\ UNCHANGED <<stagedFiles, runBtnEnabled, db, lastOutput, store, runList, clock, uuidCounter, call>>

Output(filename, graphIri, quads, ser) ==
    [filename |-> filename, graphIri |-> graphIri, quads |-> quads, ser |-> ser]

\* the write transaction completes; lastOutput is set and rendered;
\* refreshRunsList is called
RunPut(i) ==
    /\ tasks[i].kind = "run" /\ tasks[i].pc = "put"
    /\ store' = putRun(store, tasks[i].run)
    /\ lastOutput' = Output(tasks[i].staged.file.name, tasks[i].graphIri, tasks[i].quads,
                            tasks[i].ser)
    /\ tasks' = [tasks EXCEPT ![i] = [@ EXCEPT !.pc = "refresh"]]
    /\ UNCHANGED <<stagedFiles, runBtnEnabled, db, runList, clock, uuidCounter, call>>

\* listRuns answers; the run list is rendered; 'Run complete'
RunRefresh(i) ==
    /\ tasks[i].kind = "run" /\ tasks[i].pc = "refresh"
    /\ runList' = listRuns(store)
    /\ tasks' = [tasks EXCEPT ![i] = Settle(@, "complete", "none", store)]
    /\ UNCHANGED <<stagedFiles, runBtnEnabled, db, lastOutput, store, clock, uuidCounter, call>>

\* the awaited operation rejects; safeAsync calls onError: 'Run failed'
RunFail(i) ==
    /\ tasks[i].kind = "run"
    /\ tasks[i].pc \in {"read", "assemble", "serialize", "put", "refresh"}
    /\ tasks' = [tasks EXCEPT ![i] = Settle(@, "failed", @.pc, store)]
    /\ UNCHANGED <<stagedFiles, runBtnEnabled, db, lastOutput, store, runList, clock, uuidCounter, call>>

\* click on Preview in the options panel, for a staged file
PreviewClick ==
    /\ Len(tasks) < MaxTasks
    /\ \E k \in DOMAIN stagedFiles :
          tasks' = Append(tasks, [NewTask("preview", "read") EXCEPT
                                     !.staged = stagedFiles[k],
                                     !.stagedId = stagedFiles[k].id])
    /\ UNCHANGED <<stagedFiles, runBtnEnabled, db, lastOutput, store, runList, clock,
                   uuidCounter, call>>

\* the file is read and parsed; the options captured at the click, with the
\* preview added, are handed to handleUpdateFileOptions; 'Preview ready'
PreviewRead(i) ==
    /\ tasks[i].kind = "preview" /\ tasks[i].pc = "read"
    /\ detectTabularType(tasks[i].staged.file.name) # "xlsx"
    /\ LET staged == tasks[i].staged
           tabular == parseCsvOrTsvText(staged.file.text, staged.options.delimiterHint)
           preview == SubSeq(tabular.rows, 1, IF Len(tabular.rows) < 5 THEN Len(tabular.rows) ELSE 5)
           nextOptions == [staged.options EXCEPT
                              !.preview = [header |-> tabular.header, rows |-> preview]]
       IN /\ handleUpdateFileOptions(staged.id, nextOptions)
          /\ tasks' = [tasks EXCEPT ![i] =
                          [Settle(@, "preview ready", "none", store) EXCEPT
                              !.stagedBefore = stagedFiles, !.stagedAfter = stagedFiles']]
    /\ UNCHANGED <<db, lastOutput, store, runList, clock, uuidCounter, call>>

\* the read or the parse rejects: 'Preview failed'
PreviewFail(i) ==
    /\ tasks[i].kind = "preview" /\ tasks[i].pc = "read"
    /\ tasks' = [tasks EXCEPT ![i] = Settle(@, "failed", @.pc, store)]
    /\ UNCHANGED <<stagedFiles, runBtnEnabled, db, lastOutput, store, runList, clock,
                   uuidCounter, call>>

\* click on Delete in the run list
DeleteClick ==
    /\ Ready
    /\ Len(tasks) < MaxTasks
    /\ \E k \in DOMAIN runList :
          tasks' = Append(tasks, [NewTask("delete", "delete") EXCEPT
                                     !.graphIri = runList[k].graphIri])
    /\ UNCHANGED <<stagedFiles, runBtnEnabled, db, lastOutput, store, runList, clock, uuidCounter, call>>

\* the delete transaction completes; refreshRunsList is called
DeleteDone(i) ==
    /\ tasks[i].kind = "delete" /\ tasks[i].pc = "delete"
    /\ store' = deleteRun(store, tasks[i].graphIri)
    /\ tasks' = [tasks EXCEPT ![i] = [@ EXCEPT !.pc = "refresh"]]
    /\ UNCHANGED <<stagedFiles, runBtnEnabled, db, lastOutput, runList, clock, uuidCounter, call>>

\* listRuns answers; the run list is rendered; 'Deleted'
DeleteRefresh(i) ==
    /\ tasks[i].kind = "delete" /\ tasks[i].pc = "refresh"
    /\ runList' = listRuns(store)
    /\ tasks' = [tasks EXCEPT ![i] = Settle(@, "deleted", "none", store)]
    /\ UNCHANGED <<stagedFiles, runBtnEnabled, db, lastOutput, store, clock, uuidCounter, call>>

\* the awaited operation rejects: 'Delete failed'
DeleteFail(i) ==
    /\ tasks[i].kind = "delete" /\ tasks[i].pc \in {"delete", "refresh"}
    /\ tasks' = [tasks EXCEPT ![i] = Settle(@, "failed", @.pc, store)]
    /\ UNCHANGED <<stagedFiles, runBtnEnabled, db, lastOutput, store, runList, clock, uuidCounter, call>>

\* click on Load in the run list
LoadClick ==
    /\ Ready
    /\ Len(tasks) < MaxTasks
    /\ \E k \in DOMAIN runList :
          tasks' = Append(tasks, [NewTask("load", "get") EXCEPT
                                     !.graphIri = runList[k].graphIri])
    /\ UNCHANGED <<stagedFiles, runBtnEnabled, db, lastOutput, store, runList, clock, uuidCounter, call>>

\* getRunDataset answers: 'Run not found.' is thrown for null, otherwise the
\* dataset is rebuilt and datasetToSerializations is called
LoadGet(i) ==
    /\ tasks[i].kind = "load" /\ tasks[i].pc = "get"
    /\ LET run == getRunDataset(store, tasks[i].graphIri)
       IN IF run = Null
          THEN tasks' = [tasks EXCEPT ![i] = Settle(@, "failed", "not found", store)]
          ELSE tasks' = [tasks EXCEPT ![i] = [@ EXCEPT !.pc = "serialize", !.run = run,
                                                       !.dataset = datasetFromQuads(run.quads)]]
    /\ UNCHANGED <<stagedFiles, runBtnEnabled, db, lastOutput, store, runList, clock, uuidCounter, call>>

\* datasetToSerializations returns; lastOutput is set and rendered; 'Loaded'
LoadSerialize(i) ==
    /\ tasks[i].kind = "load" /\ tasks[i].pc = "serialize"
    /\ LET t == tasks[i]
           ser == datasetToSerializations(t.dataset, t.graphIri, prefixes)
       IN /\ lastOutput' = Output(t.run.filename, t.run.graphIri, t.run.quads, ser)
          /\ tasks' = [tasks EXCEPT ![i] =
                          [Settle(@, "loaded", "none", store) EXCEPT !.quads = t.run.quads]]
    /\ UNCHANGED <<stagedFiles, runBtnEnabled, db, store, runList, clock, uuidCounter, call>>

\* the awaited operation rejects: 'Load failed'
LoadFail(i) ==
    /\ tasks[i].kind = "load" /\ tasks[i].pc \in {"get", "serialize"}
    /\ tasks' = [tasks EXCEPT ![i] = Settle(@, "failed", @.pc, store)]
    /\ UNCHANGED <<stagedFiles, runBtnEnabled, db, lastOutput, store, runList, clock, uuidCounter, call>>

Next ==
    \/ InitPage
    \/ handleDrop
    \/ handleFileInputChange
    \/ handleRemoveStagedFile
    \/ handleClearStaged
    \/ handleHeaderToggle
    \/ Tick
    \/ RunClick
    \/ \E i \in DOMAIN tasks : RunRead(i)
    \/ \E i \in DOMAIN tasks : RunAssemble(i)
    \/ \E i \in DOMAIN tasks : RunSerialize(i)
    \/ \E i \in DOMAIN tasks : RunPut(i)
    \/ \E i \in DOMAIN tasks : RunRefresh(i)
    \/ \E i \in DOMAIN tasks : RunFail(i)
    \/ PreviewClick
    \/ \E i \in DOMAIN tasks : PreviewRead(i)
    \/ \E i \in DOMAIN tasks : PreviewFail(i)
    \/ DeleteClick
    \/ \E i \in DOMAIN tasks : DeleteDone(i)
    \/ \E i \in DOMAIN tasks : DeleteRefresh(i)
    \/ \E i \in DOMAIN tasks : DeleteFail(i)
    \/ LoadClick
    \/ \E i \in DOMAIN tasks : LoadGet(i)
    \/ \E i \in DOMAIN tasks : LoadSerialize(i)
    \/ \E i \in DOMAIN tasks : LoadFail(i)

Spec == Init /\ [][Next]_vars

SettledRuns == {i \in DOMAIN tasks : tasks[i].kind = "run" /\ tasks[i].pc = "done"
                                       /\ tasks[i].outcome \in {"complete", "failed"}}

\* C4: every handleRun that ran ends either reported complete with the
\* run's record in the store under its graph identifier, or reported failed
\* with the store content it started with.
C4_CompleteAndStoredOrFailedAndUnchanged ==
    \A i \in SettledRuns :
        \/ /\ tasks[i].outcome = "complete"
           /\ \E r \in tasks[i].storeAfter : r.graphIri = tasks[i].graphIri
        \/ /\ tasks[i].outcome = "failed"
           /\ tasks[i].storeAfter = tasks[i].storeBefore

\* C5: when assembly succeeds and datasetToSerializations fails, the failure
\* is reported and the run's quads are nevertheless stored under the run's
\* graph identifier.
C5_StoredDespiteSerializationFailure ==
    \A i \in SettledRuns :
        tasks[i].failedAt = "serialize" =>
            /\ tasks[i].outcome = "failed"
            /\ \E r \in tasks[i].storeAfter :
                  r.graphIri = tasks[i].graphIri /\ r.quads = tasks[i].quads

\* C6: at most one run is active at any time (a run clicked while another
\* is suspended at an await is rejected, or starts after the other ended).
C6_AtMostOneActiveRun ==
    Cardinality({i \in DOMAIN tasks : tasks[i].kind = "run" /\ tasks[i].pc # "done"}) <= 1

\* a run reported failed at the refresh of the run list, its record written
\* to a store that was empty when it started
C4_FailedAfterStoreWrite ==
    \E i \in SettledRuns :
        /\ tasks[i].outcome = "failed" /\ tasks[i].failedAt = "refresh"
        /\ tasks[i].storeBefore = {}
        /\ \E r \in tasks[i].storeAfter : r.graphIri = tasks[i].graphIri

\* a run whose serialization failed after a non-empty assembly, and whose
\* store is as empty as when it started
C5_NothingStoredOnSerializationFailure ==
    \E i \in SettledRuns :
        /\ tasks[i].outcome = "failed" /\ tasks[i].failedAt = "serialize"
        /\ Len(tasks[i].quads) > 0
        /\ tasks[i].storeBefore = {} /\ tasks[i].storeAfter = {}

\* the second run is waiting for its store write while the first, started
\* earlier, is still waiting for its file
C6_TwoRunsInterleaved ==
    /\ Len(tasks) = 2
    /\ tasks[1].kind = "run" /\ tasks[1].pc = "read"
    /\ tasks[2].kind = "run" /\ tasks[2].pc = "put"

(***************************************************************************)
(* SpecFunctions: one call of a function of rdf/schema.js or               *)
(* tabular/parseTabular.js, for every input of the sets below.             *)
(***************************************************************************)
ExcelCalls == {[op |-> "toExcelLetters", returned |-> FALSE, index |-> i] : i \in 0..MaxIndex}

NameChars == {"a", "B", "1", " ", "_", "!"}
NameKeys == SeqsUpTo(NameChars, MaxKeyLen)
              \cup {<<"e","m","a","i","l"," ","a","d","d","r","e","s","s">>}
\* the casing values of the PredicateCasing type
PredicateCasing == {"camelCase", "PascalCase", "snake_case", "SHOUT_CASE"}

\* the values of the casing <select> of the options panel; handleCasingChange
\* stores the selected one in options.predicate.casing
PanelCasings == {"camelCase", "PascalCase", "snake_case", "SHOUTCASE"}

NameCalls ==
    {[op |-> "buildPredicateLocalName", returned |-> FALSE, columnKey |-> k,
      predicateOptions |-> [prefixHas |-> h, casing |-> c, whenNoHeader |-> "ordinal"]] :
        k \in NameKeys, h \in BOOLEAN, c \in PredicateCasing \cup PanelCasings}

SlugChars == {"A", "b", "1", "_", "-", ".", " ", "("}
MyFile == <<"M","y"," ","F","i","l","e"," ","(","v","1",")",".","c","s","v">>
SlugCalls ==
    {[op |-> "slugify", returned |-> FALSE, s |-> x] :
        x \in SeqsUpTo(SlugChars, MaxSlugLen) \cup {MyFile}}

CellChars == {"1", "0", "-", "a", "y", "N", " "}
CellWords ==
    { TrueWord, <<"T","R","U","E">>, <<"T","r","u","e">>, FalseWord, <<"F","A","L","S","E">>,
      <<"y","e","s">>, <<"Y","E","S">>, <<"n","o">>, <<"N","o">>, <<"Y">>, <<"n">>,
      <<"1",".","5">>, <<"+","7">>, <<"a","b","c">>, <<"1","2","a","b","c">>,
      <<"h","t","t","p",":","/","/","e">>, <<"H","T","T","P","S",":","/","/","E">>,
      <<" ","h","t","t","p","s",":","/","/","e"," ">>, <<"f","t","p",":","/","/","e">>,
      <<"h","t","t","p",":","/","e">>, <<"x"," ","h","t","t","p",":","/","/","e">> }
CellDatatypes ==
    {Undefined, XsdString, XsdBoolean, XsdInteger, XsdAnyURI,
     Xsd(<<"d","a","t","e">>), Xsd(<<"g","Y","e","a","r">>)}
CellCalls ==
    {[op |-> "buildLiteralObject", returned |-> FALSE, value |-> v, declared |-> d] :
        v \in SeqsUpTo(CellChars, MaxCellLen) \cup CellWords, d \in CellDatatypes}

LineChars == {"a", ",", "\"", "\t"}
LineCalls ==
    {[op |-> "parseLine", returned |-> FALSE, line |-> l, delim |-> d] :
        l \in SeqsUpTo(LineChars, MaxLineLen)
                \cup {<<"a",",","\"","b",",","c","\"",",","d">>,
                      <<"\"","a","\"","\"","b","\"",",","c">>},
        d \in {",", "\t"}}

TextChars == {"a", ",", "\t", "\n", "\r", " "}
FirstLast == <<"f","i","r","s","t",",","l","a","s","t","\n","A","d","a",",","L","o","v","e",
               "l","a","c","e","\n","A","l","a","n",",","T","u","r","i","n","g","\n">>
TextCalls ==
    {[op |-> "parseCsvOrTsvText", returned |-> FALSE, text |-> t, delimiterHint |-> h] :
        t \in SeqsUpTo(TextChars, MaxTextLen)
                \cup {FirstLast, <<"\"", " ", "a", ",", "\"", ",", "b", "\r", "\n", "c">>},
        h \in {Undefined, <<",">>, <<"\t">>}}

InitFunctions ==
    /\ AppInit
    /\ call \in ExcelCalls \cup NameCalls \cup SlugCalls \cup CellCalls \cup LineCalls
                   \cup TextCalls

CallToExcelLetters ==
    /\ call.op = "toExcelLetters" /\ ~call.returned
    /\ call' = [op |-> "toExcelLetters", returned |-> TRUE, index |-> call.index,
                letters |-> toExcelLetters(call.index)]
    /\ UNCHANGED appVars

\* tokens is the function's local of that name (schema.js line 134)
CallBuildPredicateLocalName ==
    /\ call.op = "buildPredicateLocalName" /\ ~call.returned
    /\ LET raw == OrElse(Trim(call.columnKey), ColumnWord)
           phrase == IF call.predicateOptions.prefixHas THEN <<"h","a","s"," ">> \o raw ELSE raw
       IN call' = [op |-> "buildPredicateLocalName", returned |-> TRUE,
                   columnKey |-> call.columnKey, predicateOptions |-> call.predicateOptions,
                   tokens |-> tokenizeWords(phrase),
                   local |-> buildPredicateLocalName(call.columnKey, call.predicateOptions)]
    /\ UNCHANGED appVars

CallSlugify ==
    /\ call.op = "slugify" /\ ~call.returned
    /\ call' = [op |-> "slugify", returned |-> TRUE, s |-> call.s, slug |-> slugify(call.s)]
    /\ UNCHANGED appVars

\* the coercion of one cell as the assembler performs it (buildDataset.js
\* lines 189-208): the declared datatype or xsd:string, the term, the record
CallBuildLiteralObject ==
    /\ call.op = "buildLiteralObject" /\ ~call.returned
    /\ LET datatype == IF Falsy(call.declared) THEN XsdString ELSE call.declared
           obj == buildLiteralObject(call.value, datatype)
       IN call' = [op |-> "buildLiteralObject", returned |-> TRUE,
                   value |-> call.value, declared |-> call.declared, obj |-> obj,
                   record |-> toQuadRecord(<<"s">>, <<"p">>, <<"g">>, obj)]
    /\ UNCHANGED appVars

CallParseLine ==
    /\ call.op = "parseLine" /\ ~call.returned
    /\ call' = [op |-> "parseLine", returned |-> TRUE, line |-> call.line,
                delim |-> call.delim, fields |-> parseLine(call.line, call.delim)]
    /\ UNCHANGED appVars

CallParseCsvOrTsvText ==
    /\ call.op = "parseCsvOrTsvText" /\ ~call.returned
    /\ call' = [op |-> "parseCsvOrTsvText", returned |-> TRUE, text |-> call.text,
                delimiterHint |-> call.delimiterHint,
                tabular |-> parseCsvOrTsvText(call.text, call.delimiterHint)]
    /\ UNCHANGED appVars

NextFunctions ==
    \/ CallToExcelLetters
    \/ CallParseCsvOrTsvText
    \/ CallParseLine
    \/ CallBuildLiteralObject
    \/ CallSlugify
    \/ CallBuildPredicateLocalName

SpecFunctions == InitFunctions /\ [][NextFunctions]_vars

Returned(op) == call.op = op /\ call.returned

\* the number a letter string denotes in bijective base 26 (A = 1 .. Z = 26)
RECURSIVE LettersValue(_)
LettersValue(letters) ==
    IF letters = <<>> THEN 0
    ELSE 26 * LettersValue(SubSeq(letters, 1, Len(letters) - 1))
           + IndexIn(Upper, letters[Len(letters)])

\* C11: toExcelLetters returns for every index the standard spreadsheet
\* lettering: letters A..Z only, denoting index + 1 in bijective base 26 (so
\* distinct indices give distinct strings), one letter below 26, two below
\* 702, three from there on, with 0 -> A, 25 -> Z, 26 -> AA, 27 -> AB.
C11_SpreadsheetLetters ==
    Returned("toExcelLetters") =>
        LET i == call.index
            letters == call.letters
        IN /\ letters # <<>>
           /\ \A k \in DOMAIN letters : letters[k] \in Range(Upper)
           /\ LettersValue(letters) = i + 1
           /\ Len(letters) = IF i < 26 THEN 1 ELSE IF i < 702 THEN 2 ELSE 3
           /\ i = 0 => letters = <<"A">>
           /\ i = 25 => letters = <<"Z">>
           /\ i = 26 => letters = <<"A","A">>
           /\ i = 27 => letters = <<"A","B">>

\* index 702, the first of three letters
C11_Witness ==
    Returned("toExcelLetters") /\ call.index = 702 /\ call.letters = <<"A","A","A">>

IsAlnum(c) == c \in Range(Upper) \cup Range(Lower) \cup Range(Digits)

\* the maximal runs of letters and digits of a phrase, in order
RECURSIVE WordsLoop(_, _, _)
WordsLoop(s, cur, out) ==
    IF s = <<>> THEN (IF cur = <<>> THEN out ELSE Append(out, cur))
    ELSE IF IsAlnum(Head(s)) THEN WordsLoop(Tail(s), Append(cur, Head(s)), out)
    ELSE WordsLoop(Tail(s), <<>>, IF cur = <<>> THEN out ELSE Append(out, cur))

WordsOf(phrase) == WordsLoop(phrase, <<>>, <<>>)

\* first letter upper case, the rest lower case
Capitalized(w) == <<ToUpperChar(w[1])>> \o ToLowerCase(Tail(w))

RECURSIVE Concat(_, _)
Concat(parts, sep) ==
    IF parts = <<>> THEN <<>>
    ELSE IF Len(parts) = 1 THEN parts[1]
    ELSE Concat(SubSeq(parts, 1, Len(parts) - 1), sep) \o sep \o parts[Len(parts)]

\* C12: for a column key with at least one alphanumeric token the local name
\* is the words of the phrase ("has " + key under prefixHas, else the key)
\* joined by the casing rule: camelCase lower-cases the first word and
\* capitalizes the others, PascalCase capitalizes every word, snake_case joins
\* the lower-cased words by "_", SHOUT_CASE joins the upper-cased words by "_".
C12_WordsJoinedByCasing ==
    (/\ Returned("buildPredicateLocalName")
     /\ call.predicateOptions.casing \in PredicateCasing
     /\ WordsOf(call.columnKey) # <<>>) =>
        LET o == call.predicateOptions
            words == WordsOf(IF o.prefixHas THEN <<"h","a","s"," ">> \o call.columnKey
                             ELSE call.columnKey)
            expected ==
                CASE o.casing = "camelCase" ->
                        Concat([i \in DOMAIN words |->
                                  IF i = 1 THEN ToLowerCase(words[i]) ELSE Capitalized(words[i])], <<>>)
                  [] o.casing = "PascalCase" ->
                        Concat([i \in DOMAIN words |-> Capitalized(words[i])], <<>>)
                  [] o.casing = "snake_case" ->
                        Concat([i \in DOMAIN words |-> ToLowerCase(words[i])], <<"_">>)
                  [] o.casing = "SHOUT_CASE" ->
                        Concat([i \in DOMAIN words |-> ToUpperCase(words[i])], <<"_">>)
        IN call.local = expected

\* the documented "email address" under the prefix in PascalCase
C12_Witness ==
    /\ Returned("buildPredicateLocalName")
    /\ call.predicateOptions.prefixHas
    /\ call.predicateOptions.casing = "PascalCase"
    /\ call.columnKey = <<"e","m","a","i","l"," ","a","d","d","r","e","s","s">>
    /\ call.local = <<"H","a","s","E","m","a","i","l","A","d","d","r","e","s","s">>

\* C13: the token sequence is empty only for an empty key, the local name is
\* then "hasValue" under prefixHas and "value" without it, and the local name
\* is never the empty string.
C13_NeverEmptyLocalName ==
    Returned("buildPredicateLocalName") =>
        /\ call.tokens = <<>> => call.columnKey = <<>>
        /\ call.tokens = <<>> =>
              call.local = IF call.predicateOptions.prefixHas
                           THEN <<"h","a","s","V","a","l","u","e">>
                           ELSE <<"v","a","l","u","e">>
        /\ call.local # <<>>

\* the key "!" without the prefix in snake_case: no token, the empty local name
C13_EmptyLocalName ==
    /\ Returned("buildPredicateLocalName")
    /\ call.columnKey = <<"!">>
    /\ ~call.predicateOptions.prefixHas
    /\ call.predicateOptions.casing = "snake_case"
    /\ call.tokens = <<>>
    /\ call.local = <<>>

IsSlugWordChar(c) == c \in Range(Lower) \cup Range(Digits) \cup {"_"}

\* C14: slugify returns a non-empty string over [a-z0-9_-] without two
\* hyphens in a row and without a hyphen at either end; it is "file" when the
\* input holds no letter, digit or underscore, and otherwise its characters
\* other than hyphens are those of the input, lower-cased and in order, every
\* other character having served as a separator.
C14_SafeSlug ==
    Returned("slugify") =>
        LET r == call.slug
            kept == SelectSeq(ToLowerCase(call.s), IsSlugWordChar)
        IN /\ r # <<>>
           /\ \A i \in DOMAIN r : IsSlugWordChar(r[i]) \/ r[i] = "-"
           /\ \A i \in 1..(Len(r) - 1) : ~(r[i] = "-" /\ r[i + 1] = "-")
           /\ r[1] # "-" /\ r[Len(r)] # "-"
           /\ kept = <<>> => r = <<"f","i","l","e">>
           /\ kept # <<>> => SelectSeq(r, IsSlugWordChar) = kept
           /\ call.s = MyFile =>
                r = <<"m","y","-","f","i","l","e","-","v","1","-","c","s","v">>

\* a dot followed by a blank between two letters gives one hyphen
C14_Witness ==
    /\ Returned("slugify")
    /\ call.s = <<"A", ".", " ">> \o <<"b">>
    /\ call.slug = <<"a", "-", "b">>

\* C15: under xsd:boolean the coercer returns a literal of that datatype whose
\* lexical form is "true" for 1, true, yes and y in any letter case, "false"
\* for 0, false, no and n in any letter case, "true" for any other non-empty
\* trimmed value and "false" for an empty one.
C15_BooleanLexical ==
    (Returned("buildLiteralObject") /\ call.declared = XsdBoolean) =>
        LET w == ToLowerCase(Trim(call.value))
            expected ==
                IF w \in {<<"1">>, <<"t","r","u","e">>, <<"y","e","s">>, <<"y">>} THEN <<"t","r","u","e">>
                ELSE IF w \in {<<"0">>, <<"f","a","l","s","e">>, <<"n","o">>, <<"n">>} THEN <<"f","a","l","s","e">>
                ELSE IF w = <<>> THEN <<"f","a","l","s","e">>
                ELSE <<"t","r","u","e">>
        IN /\ call.obj.termType = "Literal"
           /\ call.obj.datatype.value = XsdBoolean
           /\ call.obj.value = expected
           /\ call.obj.value \in {<<"t","r","u","e">>, <<"f","a","l","s","e">>}

\* "No" in mixed case is false
C15_Witness ==
    /\ Returned("buildLiteralObject") /\ call.declared = XsdBoolean
    /\ call.value = <<"N","o">>
    /\ call.obj.value = <<"f","a","l","s","e">>

\* an optional sign followed by decimal digits and nothing else
IsBase10Integer(t) ==
    LET digits == IF t # <<>> /\ t[1] \in {"+", "-"} THEN Tail(t) ELSE t
    IN digits # <<>> /\ \A i \in DOMAIN digits : IsDigit(digits[i])

DecimalRendering(t) ==
    LET digits == IF t[1] \in {"+", "-"} THEN Tail(t) ELSE t
        n == ParseDec(digits)
    IN IF t[1] = "-" /\ n # 0 THEN <<"-">> \o ToDec(n) ELSE ToDec(n)

\* C16: under xsd:integer the coercer returns a literal of that datatype whose
\* lexical form is the decimal rendering of the integer when the trimmed cell
\* is a base-10 integer, and "0" when it is not.
C16_IntegerLexicalOrZero ==
    (Returned("buildLiteralObject") /\ call.declared = XsdInteger) =>
        LET t == Trim(call.value)
        IN /\ call.obj.termType = "Literal"
           /\ call.obj.datatype.value = XsdInteger
           /\ call.obj.value = IF IsBase10Integer(t) THEN DecimalRendering(t) ELSE <<"0">>

\* "1.5" is not a base-10 integer and is stored as the integer 1
C16_PrefixTakenAsInteger ==
    /\ Returned("buildLiteralObject") /\ call.declared = XsdInteger
    /\ call.value = <<"1",".","5">>
    /\ call.obj.value = <<"1">>

\* C17: a record is an IRI exactly when the declared datatype is xsd:anyURI
\* and the trimmed cell begins with http:// or https:// in any letter case,
\* and its value is then the trimmed cell; otherwise it is a literal of the
\* declared datatype (xsd:string when none is declared), and for xsd:string,
\* xsd:date and datatypes outside the coerced set its lexical form is the
\* trimmed cell.
C17_IriOrTypedLiteral ==
    Returned("buildLiteralObject") =>
        LET t == Trim(call.value)
            scheme(n) == IF Len(t) >= n THEN ToLowerCase(SubSeq(t, 1, n)) ELSE <<>>
            absolute == \/ scheme(7) = <<"h","t","t","p",":","/","/">>
                        \/ scheme(8) = <<"h","t","t","p","s",":","/","/">>
            rec == call.record
        IN /\ rec.oType = "iri" <=> (call.declared = XsdAnyURI /\ absolute)
           /\ rec.oType = "iri" => rec.oValue = t
           /\ rec.oType # "iri" =>
                /\ rec.oType = "literal"
                /\ rec.datatypeIri = IF call.declared = Undefined THEN XsdString
                                     ELSE call.declared
                /\ call.declared \notin {XsdBoolean, XsdInteger} => rec.oValue = t

\* an upper-case scheme with xsd:anyURI declared
C17_Witness ==
    /\ Returned("buildLiteralObject") /\ call.declared = XsdAnyURI
    /\ call.value = <<"H","T","T","P","S",":","/","/","E">>
    /\ call.record.oType = "iri"
    /\ call.record.oValue = call.value

\* C18: with treatFirstRowAsHeader the assembler walks exactly the rows of the
\* grid, in order, and no record comes from the header row; without it the
\* header row, if present, comes first as row 0 and its cells give records
\* like those of any row.  Records follow the non-blank cells of these rows,
\* row by row, each carrying the index of its row and the cell as its value.
C18_EffectiveDataRows ==
    Assembled =>
        LET rows == EffectiveRows
            cells == CellsInOrder(1, 1, Len(call.columnKeys))
        IN /\ Len(rows) = Len(call.tabular.rows)
                            + (IF ~call.options.treatFirstRowAsHeader /\ call.tabular.header.isArray
                               THEN 1 ELSE 0)
           /\ uuidCounter = Len(rows)
           /\ Len(call.quads) = Len(cells)
           /\ \A i \in DOMAIN call.quads :
                 LET rec == call.quads[i]
                     cell == rows[cells[i].row][cells[i].col]
                 IN /\ EndsWith(rec.s, <<"?","r","o","w","=">> \o ToDec(cells[i].row - 1))
                    /\ (rec.oType = "iri" \/ rec.datatypeIri \in {XsdString, XsdAnyURI})
                          => rec.oValue = Trim(cell)

\* the header ['a'] kept as data row 0 before the row ['http://e']
C18_Witness ==
    /\ Assembled
    /\ ~call.options.treatFirstRowAsHeader
    /\ call.tabular.header = ArrayHeader(<< <<"a">> >>)
    /\ call.tabular.rows = << << IriCell >> >>
    /\ Len(call.quads) = 2
    /\ call.quads[1].oValue = <<"a">>
    /\ EndsWith(call.quads[1].s, <<"?","r","o","w","=","0">>)
    /\ call.quads[2].oValue = IriCell
    /\ EndsWith(call.quads[2].s, <<"?","r","o","w","=","1">>)

\* the records a run task has assembled
RunRecords(i) ==
    LET t == tasks[i]
        assembled == \/ t.pc \in {"serialize", "put", "refresh"}
                     \/ t.pc = "done" /\ t.outcome = "complete"
                     \/ t.pc = "done" /\ t.failedAt \in {"serialize", "put", "refresh"}
    IN IF t.kind = "run" /\ assembled THEN Range(t.quads) ELSE {}

\* two subjects carrying the same row index
SameRowIndex(a, b) ==
    \E r \in 0..9 : /\ EndsWith(a.s, <<"?","r","o","w","=">> \o ToDec(r))
                    /\ EndsWith(b.s, <<"?","r","o","w","=">> \o ToDec(r))

\* C19: two records carry the same subject exactly when they come from the
\* same data row of the same run: one subject per row, different rows have
\* different subjects, and no subject is shared between two runs, a rerun of
\* the same file on the same day included.
C19_SubjectPerRowPerRun ==
    \A i, j \in DOMAIN tasks :
        \A a \in RunRecords(i), b \in RunRecords(j) :
            a.s = b.s <=> (i = j /\ SameRowIndex(a, b))

\* a rerun of the same file on the same day has replaced the stored run of
\* the first, each run with two records of its one data row
C19_Witness ==
    /\ Len(tasks) = 2
    /\ tasks[1].kind = "run" /\ tasks[1].outcome = "complete"
    /\ tasks[2].kind = "run" /\ tasks[2].outcome = "complete"
    /\ tasks[1].graphIri = tasks[2].graphIri
    /\ Len(tasks[1].quads) = 2 /\ Len(tasks[2].quads) = 2
    /\ tasks[1].quads[1].s = tasks[1].quads[2].s
    /\ tasks[1].quads[1].s # tasks[2].quads[1].s
    /\ \E r \in store : r.graphIri = tasks[2].graphIri /\ r.quads = tasks[2].quads

\* what the two-state scanner makes of every character of a line: "sep" for
\* a delimiter outside a quoted span, "copy" for a character kept as content
\* (a delimiter inside a quoted span, the first quote of a doubled quote
\* inside a quoted span, any other character), "drop" for a quote that opens
\* or closes a span and for the second quote of a doubled one
RECURSIVE ScanMarks(_, _, _, _)
ScanMarks(line, delim, i, quoted) ==
    IF i > Len(line) THEN <<>>
    ELSE IF line[i] = "\"" /\ quoted /\ i < Len(line) /\ line[i + 1] = "\""
    THEN <<"copy", "drop">> \o ScanMarks(line, delim, i + 2, TRUE)
    ELSE IF line[i] = "\"" THEN <<"drop">> \o ScanMarks(line, delim, i + 1, ~quoted)
    ELSE IF line[i] = delim /\ ~quoted THEN <<"sep">> \o ScanMarks(line, delim, i + 1, FALSE)
    ELSE <<"copy">> \o ScanMarks(line, delim, i + 1, quoted)

\* C20: parseLine returns, for every line (unterminated quotes included),
\* exactly 1 + the number of delimiters outside quoted spans fields; the k-th
\* field is the content between the (k-1)-th and the k-th such delimiter: a
\* delimiter inside a quoted span is content, a doubled quote inside a quoted
\* span is one quote, and every other quote is left out.
C20_TwoStateScanner ==
    Returned("parseLine") =>
        LET line == call.line
            marks == ScanMarks(line, call.delim, 1, FALSE)
            positions == [p \in 1..Len(line) |-> p]
            IsSep(p) == marks[p] = "sep"
            seps == SelectSeq(positions, IsSep)
            from(k) == IF k = 1 THEN 0 ELSE seps[k - 1]
            upTo(k) == IF k = Len(seps) + 1 THEN Len(line) + 1 ELSE seps[k]
            content(k) ==
                LET Kept(p) == from(k) < p /\ p < upTo(k) /\ marks[p] = "copy"
                    kept == SelectSeq(positions, Kept)
                IN [n \in 1..Len(kept) |-> line[kept[n]]]
        IN /\ Len(marks) = Len(line)
           /\ Len(call.fields) = 1 + Len(seps)
           /\ \A k \in 1..Len(call.fields) : call.fields[k] = content(k)
           /\ (line = <<"a",",","\"","b",",","c","\"",",","d">> /\ call.delim = ",")
                 => call.fields = << <<"a">>, <<"b",",","c">>, <<"d">> >>
           /\ (line = <<"\"","a","\"","\"","b","\"",",","c">> /\ call.delim = ",")
                 => call.fields = << <<"a","\"","b">>, <<"c">> >>

\* a quoted delimiter followed by a delimiter: two fields, the second empty
C20_Witness ==
    /\ Returned("parseLine") /\ call.delim = ","
    /\ call.line = <<"\"", ",", "\"", ",">>
    /\ call.fields = << <<",">>, <<>> >>

\* the lines of a text, a line ending at CR LF, at CR or at LF
RECURSIVE TextLines(_, _, _)
TextLines(text, cur, out) ==
    IF text = <<>> THEN Append(out, cur)
    ELSE IF Head(text) = "\r" /\ Len(text) >= 2 /\ text[2] = "\n"
    THEN TextLines(Tail(Tail(text)), <<>>, Append(out, cur))
    ELSE IF Head(text) \in {"\r", "\n"} THEN TextLines(Tail(text), <<>>, Append(out, cur))
    ELSE TextLines(Tail(text), Append(cur, Head(text)), out)

IsNonZeroLength(l) == l # <<>>
KeptLines(text) == SelectSeq(TextLines(text, <<>>, <<>>), IsNonZeroLength)

\* the grid expected of a text when every kept line is cut at delimiter d
GridCutAt(text, d) ==
    LET kept == KeptLines(text)
        cells(i) == LET f == parseLine(kept[i], d)
                    IN [c \in DOMAIN f |-> Trim(f[c])]
    IN [header |-> IF kept = <<>> THEN NullHeader ELSE ArrayHeader(cells(1)),
        rows |-> [i \in 1..(Len(kept) - 1) |-> cells(i + 1)]]

\* C21: parseCsvOrTsvText takes the lines of the text (CR LF and CR read as
\* LF), drops those of zero length, makes the first remaining line the header
\* and the others the rows, in order, every cell trimmed; a text without a
\* line of non-zero length gives a null header and no rows.
C21_HeaderAndRows ==
    Returned("parseCsvOrTsvText") =>
        LET kept == KeptLines(call.text)
            t == call.tabular
        IN /\ kept = <<>> => t = [header |-> NullHeader, rows |-> <<>>]
           /\ kept # <<>> =>
                /\ t.header.isArray
                /\ 1 + Len(t.rows) = Len(kept)
                /\ \E d \in {",", "\t"} : t = GridCutAt(call.text, d)
                /\ \A c \in DOMAIN t.header.cells : Trim(t.header.cells[c]) = t.header.cells[c]
                /\ \A r \in DOMAIN t.rows : \A c \in DOMAIN t.rows[r] :
                      Trim(t.rows[r][c]) = t.rows[r][c]
           /\ (call.text = FirstLast /\ call.delimiterHint = <<",">>) =>
                t = [header |-> ArrayHeader(<< <<"f","i","r","s","t">>, <<"l","a","s","t">> >>),
                     rows |-> << << <<"A","d","a">>, <<"L","o","v","e","l","a","c","e">> >>,
                                 << <<"A","l","a","n">>, <<"T","u","r","i","n","g">> >> >>]

\* a quoted cell trimmed after unquoting, CR LF between the two lines
C21_Witness ==
    /\ Returned("parseCsvOrTsvText") /\ call.delimiterHint = <<",">>
    /\ call.text = <<"\"", " ", "a", ",", "\"", ",", "b", "\r", "\n", "c">>
    /\ call.tabular = [header |-> ArrayHeader(<< <<"a", ",">>, <<"b">> >>),
                       rows |-> << << <<"c">> >> >>]

\* C22: a delimiter hint is the delimiter of every line; without a hint the
\* delimiter is chosen once, from the first line that is not blank: the tab
\* when that line holds strictly more tabs than commas, the comma otherwise
\* (ties and lines with neither included), and it is used for every line.
C22_DelimiterChoice ==
    Returned("parseCsvOrTsvText") =>
        LET lines == TextLines(call.text, <<>>, <<>>)
            notBlank == {i \in DOMAIN lines : Trim(lines[i]) # <<>>}
            first == IF notBlank = {} THEN <<>>
                     ELSE lines[CHOOSE i \in notBlank : \A j \in notBlank : i <= j]
            tabs == Cardinality({i \in DOMAIN first : first[i] = "\t"})
            commas == Cardinality({i \in DOMAIN first : first[i] = ","})
            d == IF call.delimiterHint # Undefined THEN call.delimiterHint[1]
                 ELSE IF tabs > commas THEN "\t" ELSE ","
        IN call.tabular = GridCutAt(call.text, d)

\* no hint, as many tabs as commas in the first line: the comma is chosen
\* and cuts the second line too
C22_Witness ==
    /\ Returned("parseCsvOrTsvText") /\ call.delimiterHint = Undefined
    /\ call.text = <<",", "\t", "\n", ",">>
    /\ call.tabular = [header |-> ArrayHeader(<< <<>>, <<>> >>), rows |-> << << <<>>, <<>> >> >>]

\* the hour a timestamp of toISOString denotes, counted from year 0 in months
\* of 31 days: earlier timestamps have smaller numbers
IsoHour(iso) ==
    LET field(a, b) == ParseDec(SubSeq(iso, a, b))
    IN ((field(1, 4) * 12 + field(6, 7)) * 31 + field(9, 10)) * 24 + field(12, 13)

\* C23: after any sequence of putRun and deleteRun, listRuns returns one entry
\* per stored run, each with graphIri, filename and createdAtIso only, the
\* most recent first.
C23_ListedNewestFirst ==
    (call.op = "store" /\ call.last = "list") =>
        LET listed == call.listed
        IN /\ Len(listed) = Cardinality(store)
           /\ \A r \in store :
                 \E i \in DOMAIN listed :
                    listed[i] = [graphIri |-> r.graphIri, filename |-> r.filename,
                                 createdAtIso |-> r.createdAtIso]
           /\ \A i \in DOMAIN listed :
                 DOMAIN listed[i] = {"graphIri", "filename", "createdAtIso"}
           /\ \A i, j \in DOMAIN listed :
                 i < j => IsoHour(listed[i].createdAtIso) >= IsoHour(listed[j].createdAtIso)

\* two runs listed, the later one first although its key comes second
C23_Witness ==
    /\ call.op = "store" /\ call.last = "list"
    /\ Len(call.listed) = 2
    /\ StringLess(call.listed[2].graphIri, call.listed[1].graphIri)
    /\ IsoHour(call.listed[1].createdAtIso) > IsoHour(call.listed[2].createdAtIso)

\* the next step of the i-th handler invocation: the promise it awaits is
\* fulfilled or rejected
TaskStep(i) ==
    /\ i \in DOMAIN tasks
    /\ \/ RunFail(i) \/ PreviewFail(i) \/ DeleteFail(i) \/ LoadFail(i)
       \/ RunRead(i) \/ RunAssemble(i) \/ RunSerialize(i) \/ RunPut(i) \/ RunRefresh(i)
       \/ PreviewRead(i)
       \/ DeleteDone(i) \/ DeleteRefresh(i)
       \/ LoadGet(i) \/ LoadSerialize(i)

\* the position of every handler invocation; every step of one changes it
pcs == [i \in DOMAIN tasks |-> tasks[i].pc]

\* the page as far as the four handlers go: files are dropped, the handlers
\* are invoked and take their steps
NextHandlers ==
    \/ InitPage
    \/ handleDrop
    \/ RunClick
    \/ PreviewClick
    \/ DeleteClick
    \/ LoadClick
    \/ \E i \in DOMAIN tasks : TaskStep(i)

\* every promise a handler awaits (a file read, an IndexedDB request or
\* transaction) is eventually fulfilled or rejected
SpecLive == Init /\ [][NextHandlers]_vars /\ \A i \in 1..MaxTasks : WF_pcs(TaskStep(i))

\* a settled handler reported its failure once, or had none to report
ReportedOnce(t) ==
    t.reports = IF t.pc = "done" /\ t.outcome = "failed" THEN 1 ELSE 0

\* C24: every invocation of handleRun, handlePreviewFile, handleDeleteRun and
\* handleLoadRunToOutput eventually settles, whichever awaited step fails; a
\* failure has been reported exactly once when it settles, nothing is
\* reported otherwise; a settled invocation takes no further step (the
\* failed operation is not tried again).
C24_SettlesReportedOnce ==
    /\ \A i \in 1..MaxTasks :
          (i \in DOMAIN tasks) ~> (i \in DOMAIN tasks /\ tasks[i].pc = "done")
    /\ [](\A i \in DOMAIN tasks : ReportedOnce(tasks[i]))
    /\ [][\A i \in DOMAIN tasks : tasks[i].pc = "done" => tasks'[i] = tasks[i]]_vars

\* a run whose store write failed and a preview whose read failed have both
\* settled, each reported once
C24_Witness ==
    /\ Len(tasks) = 2
    /\ tasks[1].kind = "run" /\ tasks[1].pc = "done" /\ tasks[1].failedAt = "put"
    /\ tasks[2].kind = "preview" /\ tasks[2].pc = "done" /\ tasks[2].failedAt = "read"
    /\ tasks[1].reports = 1 /\ tasks[2].reports = 1
    /\ store = {}

\* the words joined by the rule the panel's casing choice stands for
PanelRule(casing, words) ==
    CASE casing = "camelCase" ->
            Concat([i \in DOMAIN words |->
                      IF i = 1 THEN ToLowerCase(words[i]) ELSE Capitalized(words[i])], <<>>)
      [] casing = "PascalCase" ->
            Concat([i \in DOMAIN words |-> Capitalized(words[i])], <<>>)
      [] casing = "snake_case" ->
            Concat([i \in DOMAIN words |-> ToLowerCase(words[i])], <<"_">>)
      [] casing = "SHOUTCASE" ->
            Concat([i \in DOMAIN words |-> ToUpperCase(words[i])], <<"_">>)

\* C25: for each of the four casing values the options panel can store in
\* options.predicate.casing, the local name of a key with at least one word
\* follows that casing's rule; the shout-case choice upper-cases every word
\* and joins the words by "_".
C25_PanelCasingHonoured ==
    (/\ Returned("buildPredicateLocalName")
     /\ call.predicateOptions.casing \in PanelCasings
     /\ WordsOf(call.columnKey) # <<>>) =>
        call.local = PanelRule(call.predicateOptions.casing,
                               WordsOf(IF call.predicateOptions.prefixHas
                                       THEN <<"h","a","s"," ">> \o call.columnKey
                                       ELSE call.columnKey))

\* the panel's shout-case choice on the key "a B" under the prefix gives the
\* camelCase name "hasAB", not "HAS_A_B"
C25_ShoutChoiceGivesCamelCase ==
    /\ Returned("buildPredicateLocalName")
    /\ call.predicateOptions.casing = "SHOUTCASE"
    /\ call.predicateOptions.prefixHas
    /\ call.columnKey = <<"a", " ", "B">>
    /\ call.local = <<"h","a","s","A","B">>

\* C26: for every previewed header, both values of treatFirstRowAsHeader and
\* every column index i of the grid, the key getColumnKeyForDatatype gives
\* the i-th datatype selector is the i-th key of buildColumnKeys (duplicate
\* and empty header labels included).
C26_SelectorKeyIsColumnKey ==
    (KeysReturned /\ call.asked) =>
        \A i \in DOMAIN call.keys :
            i \in DOMAIN call.selectorKeys /\ call.selectorKeys[i] = call.keys[i]

\* the header a,a used as header: the second column's key is "a_2" and its
\* selector's key is "a", the key of the first column
C26_DuplicateLabelSharesKey ==
    /\ KeysReturned /\ call.asked
    /\ call.treatFirstRowAsHeader
    /\ call.header = ArrayHeader(<<<<"a">>, <<"a">>>>)
    /\ call.keys = <<<<"a">>, <<"a", "_", "2">>>>
    /\ call.selectorKeys = <<<<"a">>, <<"a">>>>

\* the i-th invocation is a run whose store write has completed
HasPut(i) ==
    /\ tasks[i].kind = "run"
    /\ \/ tasks[i].pc = "refresh"
       \/ tasks[i].pc = "done" /\ tasks[i].outcome = "complete"
       \/ tasks[i].pc = "done" /\ tasks[i].failedAt = "refresh"

\* C27: in every reachable state of the store there is one record per graph
\* identifier, every QuadRecord of a stored run has g equal to the run's
\* graphIri key, and the quads of a stored run are the whole output of one
\* run that has written under that key (never a part of it, never the quads
\* of two runs).
C27_StoredRunIsOneRunsOutput ==
    \A r \in store :
        /\ \A q \in store : q.graphIri = r.graphIri => q = r
        /\ \A k \in DOMAIN r.quads : r.quads[k].g = r.graphIri
        /\ \E i \in DOMAIN tasks :
               HasPut(i) /\ tasks[i].graphIri = r.graphIri /\ r.quads = tasks[i].quads

\* two runs of the same file on the same day have both written: the store
\* holds the two quads of the second and none of the first
C27_Witness ==
    /\ Len(tasks) = 2
    /\ HasPut(1) /\ HasPut(2)
    /\ tasks[1].graphIri = tasks[2].graphIri
    /\ tasks[1].quads # tasks[2].quads
    /\ \E r \in store : /\ store = {r}
                         /\ Len(r.quads) = 2
                         /\ r.quads \in {tasks[1].quads, tasks[2].quads}

\* this step is an invocation of handleRun
RunInvoked ==
    /\ Len(tasks') = Len(tasks) + 1
    /\ tasks'[Len(tasks')].kind = "run"

\* C28: in every state reached by drops, file selections, removals, clears,
\* option updates and previews, the Run button is enabled exactly when the
\* staging list is non-empty; and handleRun invoked with an empty staging
\* list or an unopened database returns at once, writes nothing to the store
\* and leaves lastOutput unchanged.
C28_RunButtonAndGuards ==
    /\ [](runBtnEnabled <=> Len(stagedFiles) > 0)
    /\ [][(RunInvoked /\ (~Ready \/ Len(stagedFiles) = 0)) =>
            /\ tasks'[Len(tasks')].pc = "done"
            /\ tasks'[Len(tasks')].outcome \in {"no database", "nothing to run"}
            /\ store' = store
            /\ lastOutput' = lastOutput]_vars

\* handleRun has returned at its first guard before the database was open
\* and at its second guard on an empty staging list; a file was staged
\* since, the button is enabled, nothing is stored or shown
C28_Witness ==
    /\ Len(tasks) = 2
    /\ tasks[1].kind = "run" /\ tasks[1].outcome = "no database"
    /\ tasks[2].kind = "run" /\ tasks[2].outcome = "nothing to run"
    /\ Len(stagedFiles) = 1 /\ runBtnEnabled
    /\ store = {} /\ lastOutput = Null

\* the previews that completed
PreviewsReady == {i \in DOMAIN tasks : tasks[i].kind = "preview"
                                         /\ tasks[i].outcome = "preview ready"}

\* the options without the preview data
WithoutPreview(options) == [options EXCEPT !.preview = Null]

\* C29: a completed preview changes only the preview data of the previewed
\* staged file: comparing the staging list just before and just after the
\* preview's update, the files, their identities and their order are the
\* same (a file removed meanwhile is not back), the other files are unchanged
\* and every file's options other than the preview data are those in effect
\* just before (the changes made while the preview was suspended included).
C29_PreviewChangesOnlyPreviewData ==
    \A i \in PreviewsReady :
        LET before == tasks[i].stagedBefore
            after == tasks[i].stagedAfter
        IN /\ Len(after) = Len(before)
           /\ \A k \in DOMAIN before :
                 /\ after[k].id = before[k].id
                 /\ after[k].file = before[k].file
                 /\ WithoutPreview(after[k].options) = WithoutPreview(before[k].options)
                 /\ before[k].id # tasks[i].stagedId => after[k] = before[k]

\* the header checkbox of the previewed file was cleared while its preview
\* was reading; the preview's update has set it again
C29_ToggleLostByPreview ==
    \E i \in PreviewsReady :
        /\ Len(tasks[i].stagedBefore) = 1 /\ Len(tasks[i].stagedAfter) = 1
        /\ tasks[i].stagedBefore[1].id = tasks[i].stagedId
        /\ ~tasks[i].stagedBefore[1].options.treatFirstRowAsHeader
        /\ tasks[i].stagedAfter[1].options.treatFirstRowAsHeader
        /\ tasks[i].stagedAfter[1].options.preview # Null

\* this step is a step of the i-th handler invocation
Stepped(i) == tasks'[i].pc # tasks[i].pc

\* C30: lastOutput changes only when a run or a load succeeds: whatever it
\* shows is the output of a run or load that has not failed; a step of
\* handleDeleteRun, a load that finds no stored run and a failed store write
\* of handleRun leave lastOutput unchanged, the load that finds no run is
\* reported failed and leaves the store unchanged; and a load that succeeds
\* sets lastOutput.quads to the quads of the stored run it read.
C30_OutputChangesOnlyOnSuccess ==
    /\ [](lastOutput # Null =>
            \E i \in DOMAIN tasks :
                /\ tasks[i].kind \in {"run", "load"}
                /\ tasks[i].outcome # "failed"
                /\ tasks[i].graphIri = lastOutput.graphIri
                /\ tasks[i].quads = lastOutput.quads)
    /\ [][\A i \in DOMAIN tasks :
            /\ (Stepped(i) /\ tasks[i].kind = "delete") => lastOutput' = lastOutput
            /\ (Stepped(i) /\ tasks'[i].failedAt = "put") => lastOutput' = lastOutput
            /\ (Stepped(i) /\ tasks'[i].failedAt = "not found") =>
                  /\ tasks'[i].outcome = "failed"
                  /\ lastOutput' = lastOutput
                  /\ store' = store
            /\ (Stepped(i) /\ tasks'[i].outcome = "loaded") =>
                  lastOutput'.quads = tasks[i].run.quads]_vars

\* the only invocation is a run reported failed because the refresh of the
\* run list failed, and lastOutput holds that run's output
C30_FailedRunShown ==
    /\ Len(tasks) = 1
    /\ tasks[1].kind = "run" /\ tasks[1].outcome = "failed" /\ tasks[1].failedAt = "refresh"
    /\ lastOutput # Null
    /\ lastOutput.graphIri = tasks[1].graphIri
    /\ lastOutput.quads = tasks[1].quads

=============================================================================
